---- MODULE Spec2Model ----
(***************************************************************************)
(* A model of the MyVoiceger separation fallback chain                     *)
(* (audio_utils.separate_vocals_instrumental, _simple_vocal_separation)    *)
(* and of the conversion engine (rvc_pipeline.convert_voice).              *)
(*                                                                         *)
(* Samples are fixed-point integers: 200 stands for 1.0 (full scale), so   *)
(* that (L+R)/2 and 0.97*y are exact for the sample values used.           *)
(***************************************************************************)
EXTENDS Integers, Sequences, FiniteSets, TLC

VARIABLES
    fs,       \* the file system: the content of every file that exists
    fs0,      \* the file system as it was when the call started
    dirs,     \* the directories that exist
    lib,      \* which optional libraries the module-level imports found
    pc,       \* position of the running call
    result,   \* how the call ended: nothing yet, a return value, a raised exception
    trace,    \* what the call did so far: states entered, writes, exceptions
    req,      \* the arguments of a convert_voice call
    locals    \* the local variables of a convert_voice call

vars == <<fs, fs0, dirs, lib, pc, result, trace, req, locals>>

\* Longest waveform (in samples) the model loads.
MaxLen == 2

----------------------------------------------------------------------------
(* Files *)

Absent == [kind |-> "absent", tag |-> "", sr |-> 0, chans |-> <<>>]

\* A file of zero bytes (tempfile.mkstemp leaves one).
EmptyFile == [kind |-> "empty", tag |-> "", sr |-> 0, chans |-> <<>>]

\* A non-empty file that no decoder reads as audio.
Garbage == [kind |-> "garbage", tag |-> "", sr |-> 0, chans |-> <<>>]

Audio(tag, sr, chans) == [kind |-> "audio", tag |-> tag, sr |-> sr, chans |-> chans]

\* os.path.exists
exists(f, p) == p \in DOMAIN f

\* The content at a path, Absent when there is no file.
read(f, p) == IF exists(f, p) THEN f[p] ELSE Absent

put(f, p, c) == (p :> c) @@ f

remove(f, p) == [q \in DOMAIN f \ {p} |-> f[q]]

NonEmpty(c) == c.kind \in {"audio", "garbage"}

SampleValues == {-200, 200}

SampleRates == {22050, 44100}

Waveforms == UNION {[1..n -> SampleValues] : n \in 2..MaxLen}

\* The mixes a caller may hand in: mono or stereo audio, an empty file, a
\* file that is not audio.
MixFiles ==
    {Audio("mix", sr, <<w>>) : sr \in SampleRates, w \in Waveforms}
    \cup {Audio("mix", sr, <<lr[1], lr[2]>>) :
              sr \in SampleRates,
              lr \in {x \in Waveforms \X Waveforms : Len(x[1]) = Len(x[2])}}
    \cup {EmptyFile, Garbage}

----------------------------------------------------------------------------
(* Paths *)

\* os.path.join
join(dir, name) == dir \o "/" \o name

NoPath == ""

input_music_path == "music/song.mp3"

vocal_output_path == "temp_v/separated_vocal.wav"

instrumental_output_path == "temp_i/separated_instrumental.wav"

\* The directories and the name stems of the paths of the model.
Directories == {"music", "temp_v", "temp_i", "uploads", "temp"}

Stems == {"song", "separated_vocal", "separated_instrumental",
          "vocal", "voice", "voice_preprocessed", "converted"}

Range(s) == {s[i] : i \in 1..Len(s)}

\* os.path.splitext(os.path.basename(p))[0]
splitext_basename(p) ==
    CHOOSE st \in Stems :
        \E d \in Directories, e \in {".mp3", ".wav", ".flac"} : p = join(d, st \o e)

base_name == splitext_basename(input_music_path)

vocal_patterns ==
    << base_name \o "_Vocals.wav",
       base_name \o "_vocals.wav",
       base_name \o "_Instrument.wav",
       base_name \o "_instruments.wav",
       base_name \o "_Stem_01.wav" >>

instrumental_patterns ==
    << base_name \o "_Instruments.wav",
       base_name \o "_instruments.wav",
       base_name \o "_Instrument.wav",
       base_name \o "_Stem_00.wav" >>

FileNames ==
    {st \o e : st \in Stems, e \in {".mp3", ".wav", ".flac"}}
    \cup Range(vocal_patterns) \cup Range(instrumental_patterns)

\* os.path.dirname
dirname(p) ==
    CHOOSE d \in Directories : \E n \in FileNames : p = join(d, n)

output_dir == dirname(vocal_output_path)

\* The files the external model may leave in the output directory.
ModelFiles ==
    {join(output_dir, n) : n \in Range(vocal_patterns) \cup Range(instrumental_patterns)}

OutputPaths == {vocal_output_path, instrumental_output_path}

----------------------------------------------------------------------------
(* File operations *)

Min(S) == CHOOSE m \in S : \A n \in S : m <= n

\* The for/if/break loops that search a stem: the first candidate that exists.
FirstExisting(f, dir, patterns) ==
    LET hits == {i \in 1..Len(patterns) : exists(f, join(dir, patterns[i]))}
    IN  IF hits = {} THEN NoPath ELSE join(dir, patterns[Min(hits)])

\* A file operation either raises (ok = FALSE, nothing changed) or yields the
\* new file system.
Failed(f) == [ok |-> FALSE, fs |-> f]

Done(f) == [ok |-> TRUE, fs |-> f]

\* shutil.copy2(src, dst): dst becomes a copy of src.
copy2(f, d, src, dst) ==
    IF exists(f, src) /\ dirname(dst) \in d /\ src # dst
    THEN Done(put(f, dst, f[src]))
    ELSE Failed(f)

\* shutil.move(src, dst): dst takes the content of src, src is gone.
move(f, d, src, dst) ==
    IF exists(f, src) /\ dirname(dst) \in d
    THEN Done(remove(put(f, dst, f[src]), src))
    ELSE Failed(f)

\* soundfile.write(path, data, sr): a one-channel file holding data.
sf_write(f, d, path, tag, data, sr) ==
    IF dirname(path) \in d
    THEN Done(put(f, path, Audio(tag, sr, <<data>>)))
    ELSE Failed(f)

----------------------------------------------------------------------------
(* How a call ends, and what it did *)

\* The separation call takes no conversion request and keeps no such locals.
NoRequest == [pitch_shift |-> 0, algorithm |-> "", formant_shift |-> 1000,
              target_voice |-> NoPath, piptrack |-> <<>>]

NoLocals == [vocal_data |-> "", samples |-> <<>>, sr |-> 0,
             preprocessed_target |-> NoPath, embeddings |-> "", pitches |-> "",
             pitch_values |-> <<>>, magnitude_values |-> <<>>]

\* No exception.
NoError == ""

NoResult == [kind |-> "none", exc |-> "", value |-> <<>>]

Return(v) == [kind |-> "return", exc |-> "", value |-> v]

Raise(e) == [kind |-> "raise", exc |-> e, value |-> <<>>]

\* One entry of the trace. ev is "enter" (a state starts), "write" (a file
\* was written, moved or copied to path), "raise" (an exception left the
\* state), "caught" (an exception was swallowed inside the state) or
\* "return" (the state returned to the caller); "separated" is below.
Ev(ev, st, arg, path) == [ev |-> ev, st |-> st, arg |-> arg, path |-> path]

Enter(st) == Ev("enter", st, "", NoPath)

Wrote(st, path) == Ev("write", st, "", path)

Raised(st, exc) == Ev("raise", st, exc, NoPath)

Caught(st, what) == Ev("caught", st, what, NoPath)

Returned(st) == Ev("return", st, "", NoPath)

\* The external model's separate() call came back without raising.
Separated == Ev("separated", "A", "", NoPath)

\* What a state of the fallback chain did: whether it returned, the file
\* system it left, its trace entries.
Outcome(ok, f, ev) == [ok |-> ok, fs |-> f, ev |-> ev]

----------------------------------------------------------------------------
(* State B: the mid-side separation of _simple_vocal_separation *)

\* librosa.load(path, sr=None, mono=False): a one-channel file loads as a
\* 1-D array, any other as (channels, samples).
librosa_load(c) ==
    [ndim |-> IF Len(c.chans) = 1 THEN 1 ELSE 2, rows |-> c.chans]

\* Mutant: a mono signal is padded with a silent second channel.
to_stereo_padded(y) ==
    IF y.ndim = 1 \/ Len(y.rows) = 1
    THEN [ndim |-> 2, rows |-> <<y.rows[1], [n \in 1..Len(y.rows[1]) |-> 0]>>]
    ELSE y

\* The two mono guards: a 1-D array, or a single row, is doubled.
to_stereo(y) ==
    LET y1 == IF y.ndim = 1
              THEN [ndim |-> 2, rows |-> <<y.rows[1], y.rows[1]>>]
              ELSE y
    IN  IF Len(y1.rows) = 1
        THEN [ndim |-> 2, rows |-> <<y1.rows[1], y1.rows[1]>>]
        ELSE y1

\* (L + R) / 2
vocal_center(left, right) ==
    [n \in 1..Len(left) |-> (left[n] + right[n]) \div 2]

\* Mutant: the operands of the side signal exchanged.
instrumental_side_swapped(left, right) ==
    [n \in 1..Len(left) |-> right[n] - left[n]]

\* (L - R)
instrumental_side(left, right) ==
    [n \in 1..Len(left) |-> left[n] - right[n]]

\* librosa.effects.preemphasis(y), coef = 0.97: y[n] - 0.97*y[n-1], the
\* filter state before the first sample being 2*y[0] - y[1].
preemphasis(y) ==
    [n \in 1..Len(y) |->
        IF n = 1 THEN y[1] + (2 * y[1] - y[2])
        ELSE y[n] - (97 * y[n - 1]) \div 100]

\* Mutant: the pedalboard chain without its own try/except.
effect_chain_unguarded(l, fx) ==
    [applied |-> l.pedalboard /\ fx = "ok",
     caught  |-> FALSE,
     escapes |-> l.pedalboard /\ fx = "raise"]

\* The optional pedalboard chain inside its own try/except. fx is what the
\* chain did: "none" (no pedalboard installed), "ok", "raise". The except
\* clause logs a warning and goes on with the vocal estimate as it was, so
\* the exception never escapes.
effect_chain(l, fx) ==
    [applied |-> l.pedalboard /\ fx = "ok",
     caught  |-> l.pedalboard /\ fx = "raise",
     escapes |-> FALSE]

simple_vocal_separation(f, d, l, fx) ==
    IF ~l.librosa
    THEN Outcome(FALSE, f, <<Raised("B", "ImportError")>>)
    ELSE IF read(f, input_music_path).kind # "audio"
    THEN Outcome(FALSE, f, <<Raised("B", "Exception")>>)
    ELSE
    LET y  == to_stereo(librosa_load(f[input_music_path]))
        sr == f[input_music_path].sr
    IN  IF Len(y.rows) >= 2
        THEN
          LET left   == y.rows[1]
              right  == y.rows[2]
              vocal  == preemphasis(vocal_center(left, right))
              side   == instrumental_side(left, right)
              board  == effect_chain(l, fx)
              fxev   == IF board.caught
                        THEN <<Caught("B", "pedalboard")>> ELSE <<>>
              w1     == sf_write(f, d, vocal_output_path,
                                 IF board.applied THEN "vocal+fx" ELSE "vocal",
                                 vocal, sr)
              w2     == sf_write(w1.fs, d, instrumental_output_path,
                                 "instrumental", side, sr)
          IN  IF board.escapes
              THEN Outcome(FALSE, f, <<Raised("B", "Exception")>>)
              ELSE IF ~w1.ok
              THEN Outcome(FALSE, f, fxev \o <<Raised("B", "Exception")>>)
              ELSE IF ~w2.ok
              THEN Outcome(FALSE, w1.fs,
                     fxev \o <<Wrote("B", vocal_output_path), Raised("B", "Exception")>>)
              ELSE Outcome(TRUE, w2.fs,
                     fxev \o <<Wrote("B", vocal_output_path),
                               Wrote("B", instrumental_output_path), Returned("B")>>)
        ELSE
          LET c1 == copy2(f, d, input_music_path, vocal_output_path)
              c2 == copy2(c1.fs, d, input_music_path, instrumental_output_path)
          IN  IF ~c1.ok
              THEN Outcome(FALSE, f, <<Raised("B", "Exception")>>)
              ELSE IF ~c2.ok
              THEN Outcome(FALSE, c1.fs,
                     <<Wrote("B", vocal_output_path), Raised("B", "Exception")>>)
              ELSE Outcome(TRUE, c2.fs,
                     <<Wrote("B", vocal_output_path),
                       Wrote("B", instrumental_output_path), Returned("B")>>)

----------------------------------------------------------------------------
(* State C: the pass-through copy in the handler of State B's failure *)

\* Mutant: the copy to the instrumental output path is forgotten.
pass_through_vocal_only(f, d) ==
    LET c1 == copy2(f, d, input_music_path, vocal_output_path)
    IN  IF ~c1.ok
        THEN Outcome(FALSE, f, <<Raised("C", "FileNotFoundError")>>)
        ELSE Outcome(TRUE, c1.fs, <<Wrote("C", vocal_output_path), Returned("C")>>)

pass_through(f, d) ==
    LET c1 == copy2(f, d, input_music_path, vocal_output_path)
        c2 == copy2(c1.fs, d, input_music_path, instrumental_output_path)
    IN  IF ~c1.ok
        THEN Outcome(FALSE, f, <<Raised("C", "FileNotFoundError")>>)
        ELSE IF ~c2.ok
        THEN Outcome(FALSE, c1.fs,
               <<Wrote("C", vocal_output_path), Raised("C", "FileNotFoundError")>>)
        ELSE Outcome(TRUE, c2.fs,
               <<Wrote("C", vocal_output_path),
                 Wrote("C", instrumental_output_path), Returned("C")>>)

----------------------------------------------------------------------------
(* State A: the external model, and where its exceptions go *)

\* Mutant: a single "except Exception" clause that re-raises whatever State A
\* raised.
falls_back_never(exc) == FALSE

\* Mutant: "except Exception" placed before "except ImportError", so that
\* every exception falls back.
falls_back_always(exc) == TRUE

\* The except clauses of separate_vocals_instrumental: ImportError is
\* re-raised as ImportError, every other exception falls back to State B.
falls_back(exc) == exc # "ImportError"

\* What the external model left in the output directory: the files named in
\* S hold its stems.
model_output(f, S) ==
    [p \in DOMAIN f \cup S |-> IF p \in S THEN Audio(p, 44100, <<>>) ELSE f[p]]

\* Locating the two stems and moving them (or copying the mix) to the
\* output paths.
place_results(f, d) ==
    LET vocal_result        == FirstExisting(f, output_dir, vocal_patterns)
        instrumental_result == FirstExisting(f, output_dir, instrumental_patterns)
        v == IF vocal_result # NoPath
             THEN move(f, d, vocal_result, vocal_output_path)
             ELSE copy2(f, d, input_music_path, vocal_output_path)
        i == IF instrumental_result # NoPath
             THEN move(v.fs, d, instrumental_result, instrumental_output_path)
             ELSE copy2(v.fs, d, input_music_path, instrumental_output_path)
    IN  IF ~v.ok
        THEN Outcome(FALSE, f, <<Raised("A", "FileNotFoundError")>>)
        ELSE IF ~i.ok
        THEN Outcome(FALSE, v.fs,
               <<Wrote("A", vocal_output_path), Raised("A", "FileNotFoundError")>>)
        ELSE Outcome(TRUE, i.fs,
               <<Wrote("A", vocal_output_path),
                 Wrote("A", instrumental_output_path), Returned("A")>>)

----------------------------------------------------------------------------
(* separate_vocals_instrumental, step by step *)

\* An exception exc leaves State A after it did evs and left file system f.
\* Mutant: the first failure of State A starts State A over.
ExceptA_retries_once(exc, f, evs) ==
    /\ fs' = f
    /\ IF \A i \in DOMAIN trace : trace[i] # Raised("A", exc)
       THEN /\ pc' = "A_import"
            /\ result' = result
            /\ trace' = trace \o evs \o <<Raised("A", exc), Enter("A")>>
       ELSE /\ pc' = "done"
            /\ result' = Raise(exc)
            /\ trace' = trace \o evs \o <<Raised("A", exc)>>

ExceptA(exc, f, evs) ==
    /\ fs' = f
    /\ IF falls_back(exc)
       THEN /\ pc' = "B"
            /\ result' = result
            /\ trace' = trace \o evs \o <<Raised("A", exc), Enter("B")>>
       ELSE /\ pc' = "done"
            /\ result' = Raise("ImportError")
            /\ trace' = trace \o evs \o <<Raised("A", exc)>>

\* Mutant: the existence check is left out.
input_missing_unchecked(f) == FALSE

\* if not os.path.exists(input_music_path)
input_missing(f) == ~exists(f, input_music_path)

\* The existence check on the input; State A starts when it passes.
CheckInput ==
    /\ pc = "call"
    /\ IF input_missing(fs)
       THEN /\ pc' = "done"
            /\ result' = Raise("FileNotFoundError")
            /\ trace' = trace
       ELSE /\ pc' = "A_import"
            /\ result' = result
            /\ trace' = Append(trace, Enter("A"))
    /\ UNCHANGED <<fs, fs0, dirs, lib, req, locals>>

\* import torch; torch.set_default_device; import audio_separator.separator
StateA_Import ==
    /\ pc = "A_import"
    /\ \E outcome \in {"ok", "ImportError", "Exception"} :
          IF outcome = "ok"
          THEN /\ pc' = "A_separate"
               /\ UNCHANGED <<fs, result, trace>>
          ELSE ExceptA(outcome, fs, <<>>)
    /\ UNCHANGED <<fs0, dirs, lib, req, locals>>

\* os.makedirs of both output directories, then the external model runs:
\* it raises, or leaves some set S of files in the output directory.
StateA_Separate ==
    /\ pc = "A_separate"
    /\ dirs' = dirs \cup {dirname(vocal_output_path), dirname(instrumental_output_path)}
    /\ \/ \E exc \in {"ImportError", "Exception"} : ExceptA(exc, fs, <<>>)
       \/ \E S \in SUBSET ModelFiles :
             /\ fs' = model_output(fs, S)
             /\ pc' = "A_place"
             /\ trace' = Append(trace, Separated)
             /\ UNCHANGED result
    /\ UNCHANGED <<fs0, lib, req, locals>>

\* The stems are located and placed; State A returns unless a move raises.
StateA_Place ==
    /\ pc = "A_place"
    /\ LET o == place_results(fs, dirs)
       IN  IF o.ok
           THEN /\ fs' = o.fs
                /\ pc' = "done"
                /\ result' = Return(<<vocal_output_path, instrumental_output_path>>)
                /\ trace' = trace \o o.ev
           ELSE ExceptA("FileNotFoundError", o.fs, SubSeq(o.ev, 1, Len(o.ev) - 1))
    /\ UNCHANGED <<fs0, dirs, lib, req, locals>>

\* _simple_vocal_separation; its failure enters State C.
StateB ==
    /\ pc = "B"
    /\ \E fx \in (IF lib.pedalboard THEN {"ok", "raise"} ELSE {"none"}) :
          LET o == simple_vocal_separation(fs, dirs, lib, fx)
          IN  /\ fs' = o.fs
              /\ IF o.ok
                 THEN /\ pc' = "done"
                      /\ result' = Return(<<vocal_output_path, instrumental_output_path>>)
                      /\ trace' = trace \o o.ev
                 ELSE /\ pc' = "C"
                      /\ result' = result
                      /\ trace' = trace \o o.ev \o <<Enter("C")>>
    /\ UNCHANGED <<fs0, dirs, lib, req, locals>>

\* The last fallback; an exception here is not handled.
StateC ==
    /\ pc = "C"
    /\ LET o == pass_through(fs, dirs)
       IN  /\ fs' = o.fs
           /\ pc' = "done"
           /\ trace' = trace \o o.ev
           /\ result' = IF o.ok
                        THEN Return(<<vocal_output_path, instrumental_output_path>>)
                        ELSE Raise("FileNotFoundError")
    /\ UNCHANGED <<fs0, dirs, lib, req, locals>>

----------------------------------------------------------------------------
(* The separation call from every starting condition *)

\* The output files a caller created beforehand (tempfile.mkstemp) are empty
\* files in existing directories.
InitSep ==
    /\ \E mix \in MixFiles \cup {Absent} :
       \E ds \in SUBSET {dirname(vocal_output_path), dirname(instrumental_output_path)} :
       \E pre \in BOOLEAN :
          /\ pre => ds = {dirname(vocal_output_path), dirname(instrumental_output_path)}
          /\ dirs = ds \cup {dirname(input_music_path)}
          /\ fs = [p \in (IF mix = Absent THEN {} ELSE {input_music_path})
                          \cup (IF pre THEN OutputPaths ELSE {}) |->
                     IF p = input_music_path THEN mix ELSE EmptyFile]
    /\ fs0 = fs
    /\ lib \in [librosa : BOOLEAN, pedalboard : BOOLEAN]
    /\ pc = "call"
    /\ result = NoResult
    /\ trace = <<>>
    /\ req = NoRequest
    /\ locals = NoLocals

Next ==
    \/ CheckInput
    \/ StateA_Import
    \/ StateA_Separate
    \/ StateA_Place
    \/ StateB
    \/ StateC

Spec == InitSep /\ [][Next]_vars

\* One mix of every kind: mono, stereo with different channels, a file that
\* is not audio.
LiveMixFiles ==
    {Audio("mix", 44100, <<[n \in 1..MaxLen |-> 200]>>),
     Audio("mix", 44100, <<[n \in 1..MaxLen |-> 200], [n \in 1..MaxLen |-> -200]>>),
     Garbage}

\* The starting conditions of InitSep, with one mix of every kind; the
\* effects library matters only where the separation library is present.
InitLive ==
    /\ \E mix \in LiveMixFiles \cup {Absent} :
       \E ds \in SUBSET {dirname(vocal_output_path), dirname(instrumental_output_path)} :
       \E pre \in BOOLEAN :
          /\ pre => ds = {dirname(vocal_output_path), dirname(instrumental_output_path)}
          /\ dirs = ds \cup {dirname(input_music_path)}
          /\ fs = [p \in (IF mix = Absent THEN {} ELSE {input_music_path})
                          \cup (IF pre THEN OutputPaths ELSE {}) |->
                     IF p = input_music_path THEN mix ELSE EmptyFile]
    /\ fs0 = fs
    /\ lib \in {l \in [librosa : BOOLEAN, pedalboard : BOOLEAN] :
                    l.pedalboard => l.librosa}
    /\ pc = "call"
    /\ result = NoResult
    /\ trace = <<>>
    /\ req = NoRequest
    /\ locals = NoLocals

\* The call runs on one thread that nothing suspends: a step that can be
\* taken is taken.
SpecLive == InitLive /\ [][Next]_vars /\ WF_vars(Next)

----------------------------------------------------------------------------
(* Pitch extraction *)

\* Most frames a pitch analysis of the model has.
MaxFrames == 2

\* The frequencies (Hz) of the bins a pitch can be found in, low to high.
BinFreqs == <<220, 440, 880>>

Bins == 1..Len(BinFreqs)

NoPeak == [pitch |-> 0, magnitude |-> 0]

\* One frame of librosa.piptrack's result: for each bin the pitch found there
\* and its magnitude, both 0 where the bin holds no peak above the threshold.
Frames ==
    {f \in [Bins -> [pitch : {0} \cup Range(BinFreqs), magnitude : 0..2]] :
        \A b \in Bins :
           f[b] = NoPeak \/ (f[b].pitch = BinFreqs[b] /\ f[b].magnitude > 0)}

\* librosa.piptrack(y=audio_data, sr=sr, threshold=...): the frames of a signal.
PipTracks == UNION {[1..n -> Frames] : n \in 1..MaxFrames}

\* pitches[:, t].argmax(): the index of the first largest pitch of a frame.
argmax_pitch(frame) ==
    Min({b \in Bins : \A c \in Bins : frame[c].pitch <= frame[b].pitch})

\* The loop over the frames: pitch and magnitude at the index chosen.
main_pitch_track(pt) ==
    [pitch_values     |-> [t \in 1..Len(pt) |-> pt[t][argmax_pitch(pt[t])].pitch],
     magnitude_values |-> [t \in 1..Len(pt) |-> pt[t][argmax_pitch(pt[t])].magnitude]]

\* The three extractors differ in the threshold they hand to piptrack only.
extract_pitch_rmvpe(pt) == main_pitch_track(pt)

extract_pitch_harvest(pt) == main_pitch_track(pt)

extract_pitch_pm(pt) == main_pitch_track(pt)

\* 2 ** (k / 12) for k = 0..11, in thousandths.
TwelfthRoots ==
    <<1000, 1059, 1122, 1189, 1260, 1335, 1414, 1498, 1587, 1682, 1782, 1888>>

RECURSIVE pow2(_)
pow2(n) == IF n = 0 THEN 1 ELSE 2 * pow2(n - 1)

\* Mutant: the ratio of the opposite shift.
semitone_ratio_down(pitch_shift) ==
    LET s == 0 - pitch_shift
    IN  IF s >= 0
        THEN pow2(s \div 12) * TwelfthRoots[(s % 12) + 1]
        ELSE TwelfthRoots[(s % 12) + 1] \div pow2(0 - (s \div 12))

\* 2 ** (pitch_shift / 12), in thousandths: 2000 stands for 2.0.
semitone_ratio(pitch_shift) ==
    IF pitch_shift >= 0
    THEN pow2(pitch_shift \div 12) * TwelfthRoots[(pitch_shift % 12) + 1]
    ELSE TwelfthRoots[(pitch_shift % 12) + 1] \div pow2(0 - (pitch_shift \div 12))

\* pitches * (2 ** (pitch_shift / 12)), element by element
scale_pitches(pitches, pitch_shift) ==
    [t \in 1..Len(pitches) |-> (pitches[t] * semitone_ratio(pitch_shift)) \div 1000]

----------------------------------------------------------------------------
(* The pitch extractors on every pitch analysis *)

\* No file is involved in a call of a pure function.
NoFiles == [p \in {} |-> Absent]

InitPitch ==
    /\ req \in [algorithm : {"rmvpe", "harvest", "pm"}, piptrack : PipTracks]
    /\ fs = NoFiles
    /\ fs0 = NoFiles
    /\ dirs = {}
    /\ lib = [librosa |-> TRUE, pedalboard |-> FALSE]
    /\ pc = "pitch_call"
    /\ result = NoResult
    /\ trace = <<>>
    /\ locals = NoLocals

\* A call returns value.
Returns(value) ==
    /\ pc' = "done"
    /\ result' = Return(value)
    /\ UNCHANGED <<fs, fs0, dirs, lib, trace, req, locals>>

ExtractPitchRmvpe ==
    /\ pc = "pitch_call"
    /\ req.algorithm = "rmvpe"
    /\ Returns(extract_pitch_rmvpe(req.piptrack))

ExtractPitchHarvest ==
    /\ pc = "pitch_call"
    /\ req.algorithm = "harvest"
    /\ Returns(extract_pitch_harvest(req.piptrack))

ExtractPitchPm ==
    /\ pc = "pitch_call"
    /\ req.algorithm = "pm"
    /\ Returns(extract_pitch_pm(req.piptrack))

NextPitch ==
    \/ ExtractPitchRmvpe
    \/ ExtractPitchHarvest
    \/ ExtractPitchPm

SpecPitch == InitPitch /\ [][NextPitch]_vars

----------------------------------------------------------------------------
(* Formant estimation and formant shift *)

\* A frequency that is not a finite number (NaN): every comparison with it
\* is false.
NaN == -1

isfinite(f) == f # NaN

less(a, b) == isfinite(a) /\ isfinite(b) /\ a < b

\* np.array([700, 1220, 2600])
DefaultFormants == <<700, 1220, 2600>>

\* lpc_order = min(12, len(audio_data) // 100)
lpc_order(length) == IF length \div 100 < 12 THEN length \div 100 ELSE 12

\* What librosa.lpc and np.roots make of a signal: they raise exc, or yield
\* roots whose angles stand for the frequencies freqs (angle * sr / (2 * pi)
\* of the roots with non-negative imaginary part).
LpcRaises(exc) == [exc |-> exc, freqs |-> <<>>]

LpcYields(freqs) == [exc |-> NoError, freqs |-> freqs]

\* What a call of estimate_formants did: the set it returned, whether the
\* linear-prediction analysis was attempted, the exception it caught, the
\* exception that left it.
Estimate(formants, attempted, caught) ==
    [formants |-> formants, attempted |-> attempted, caught |-> caught,
     raised |-> NoError]

\* Mutant: the guard on the signal length is left out.
has_enough_signal_unchecked(length) == TRUE

\* if lpc_order > 0 and len(audio_data) > 100
has_enough_signal(length) == lpc_order(length) > 0 /\ length > 100

\* np.sort
sort(formants) == SortSeq(formants, <)

\* Mutant: an exception of the analysis leaves the function.
catches_nothing(exc) == FALSE

\* except ValueError / except Exception
catches(exc) == TRUE

\* estimate_formants(audio_data, sr) for a signal of this length
estimate_formants(length, sr, lpc) ==
    IF ~has_enough_signal(length)
    THEN Estimate(DefaultFormants, FALSE, NoError)
    ELSE IF lpc.exc # NoError
    THEN IF catches(lpc.exc)
         THEN Estimate(DefaultFormants, TRUE, lpc.exc)
         ELSE [Estimate(<<>>, TRUE, NoError) EXCEPT !.raised = lpc.exc]
    ELSE LET below(f) == less(f, sr \div 2)
             above(f) == less(50, f)
             formants == SelectSeq(SelectSeq(SelectSeq(lpc.freqs, below), above),
                                   isfinite)
         IN  IF Len(formants) > 0
             THEN Estimate(sort(formants), TRUE, NoError)
             ELSE Estimate(DefaultFormants, TRUE, NoError)

\* The FFT size of the model's spectra (librosa's default is 2048).
FftSize == 64

\* librosa.fft_frequencies(sr=sr): the centre frequencies of the bins
fft_frequencies(sr) == [k \in 1..(1 + FftSize \div 2) |-> ((k - 1) * sr) \div FftSize]

\* Mutant: a ratio of 1.0 leaves the magnitude as it is.
band_gain_unity_at_one(formant_shift) ==
    IF formant_shift > 1000 THEN 1000 + (formant_shift - 1000) \div 2
    ELSE IF formant_shift = 1000 THEN 1000
    ELSE 800 + (2 * (formant_shift - 1000)) \div 5

\* 1.0 + (formant_shift - 1.0) * 0.5 above 1.0, else
\* 0.8 + (formant_shift - 1.0) * 0.4; ratio and gain in thousandths
band_gain(formant_shift) ==
    IF formant_shift > 1000 THEN 1000 + (formant_shift - 1000) \div 2
    ELSE 800 + (2 * (formant_shift - 1000)) \div 5

\* Mutant: every formant gets the band from 0.7 to 1.3 times its centre.
band_mask_uniform(freq, formants, formant_shift, i) ==
    /\ freq * 10000 >= formants[i] * formant_shift * 7
    /\ freq * 10000 <= formants[i] * formant_shift * 13

\* band_mask of formant i at bin frequency freq
band_mask(freq, formants, formant_shift, i) ==
    IF i = 1 \/ i = Len(formants)
    THEN /\ freq * 10000 >= formants[i] * formant_shift * 7
         /\ freq * 10000 <= formants[i] * formant_shift * 13
    ELSE /\ freq * 1000 >= formants[i - 1] * formant_shift
         /\ freq * 1000 <= formants[i + 1] * formant_shift

\* The loop over the formants, from formant i on: every band scales the
\* magnitudes it covers.
RECURSIVE scale_bands(_, _, _, _, _)
scale_bands(magnitude, freqs, formants, formant_shift, i) ==
    IF i > Len(formants) THEN magnitude
    ELSE scale_bands(
            [b \in DOMAIN magnitude |->
                IF band_mask(freqs[b], formants, formant_shift, i)
                THEN (magnitude[b] * band_gain(formant_shift)) \div 1000
                ELSE magnitude[b]],
            freqs, formants, formant_shift, i + 1)

apply_formant_shift_filter(magnitude, freqs, formants, formant_shift) ==
    scale_bands(magnitude, freqs, formants, formant_shift, 1)

\* apply_formant_shift on a signal given by the magnitudes of its spectrum:
\* the formants are estimated, the filter is applied, the phase is kept.
apply_formant_shift(magnitude, length, sr, lpc, formant_shift) ==
    apply_formant_shift_filter(magnitude, fft_frequencies(sr),
                               estimate_formants(length, sr, lpc).formants,
                               formant_shift)

----------------------------------------------------------------------------
(* The formant functions on every signal *)

\* The lengths (in samples) and the sample rates of the signals.
SignalLengths == {0, 99, 100, 101, 1300}

FormantRates == {4000, 44100}

\* The frequencies the roots may stand for.
RootFreqs == {NaN, 0, 50, 51, 1999, 2000, 3000, 22049, 22050}

LpcOutcomes ==
    {LpcRaises("ValueError"), LpcRaises("LinAlgError")}
    \cup {LpcYields(fr) : fr \in UNION {[1..n -> RootFreqs] : n \in 0..2}}

\* A flat spectrum of magnitude 1.0 (1000), and one that rises with frequency.
Spectra(sr) ==
    {[b \in DOMAIN fft_frequencies(sr) |-> 1000],
     [b \in DOMAIN fft_frequencies(sr) |-> 100 * b]}

InitFormant ==
    /\ \E sr \in FormantRates :
          req \in [length : SignalLengths, sr : {sr}, lpc : LpcOutcomes,
                   magnitude : Spectra(sr), formant_shift : {500, 1000, 1500}]
    /\ pc \in {"estimate_formants", "apply_formant_shift"}
    /\ fs = NoFiles
    /\ fs0 = NoFiles
    /\ dirs = {}
    /\ lib = [librosa |-> TRUE, pedalboard |-> FALSE]
    /\ result = NoResult
    /\ trace = <<>>
    /\ locals = NoLocals

\* A call of estimate_formants: it returns, unless an exception leaves it.
EstimateFormants ==
    /\ pc = "estimate_formants"
    /\ LET e == estimate_formants(req.length, req.sr, req.lpc)
       IN  /\ result' = IF e.raised # NoError THEN Raise(e.raised) ELSE Return(e)
           /\ pc' = "done"
    /\ UNCHANGED <<fs, fs0, dirs, lib, trace, req, locals>>

\* A call of apply_formant_shift
ApplyFormantShift ==
    /\ pc = "apply_formant_shift"
    /\ LET e == estimate_formants(req.length, req.sr, req.lpc)
       IN  /\ result' = IF e.raised # NoError THEN Raise(e.raised)
                        ELSE Return(apply_formant_shift(req.magnitude, req.length,
                                       req.sr, req.lpc, req.formant_shift))
           /\ pc' = "shifted"
    /\ UNCHANGED <<fs, fs0, dirs, lib, trace, req, locals>>

NextFormant ==
    \/ EstimateFormants
    \/ ApplyFormantShift

SpecFormant == InitFormant /\ [][NextFormant]_vars

----------------------------------------------------------------------------
(* convert_voice: the arguments *)

\* The separated vocal, and the output file the caller created beforehand.
vocal_audio == "temp/vocal.wav"

output_path == "temp/converted.wav"

\* The target voice as uploaded: a .wav or a .flac file.
TargetVoices == {"uploads/voice.wav", "uploads/voice.flac"}

\* Semitones a caller may pass; 13 is outside the range -12..12 of the UI.
PitchShifts == {-12, 0, 12, 13}

Algorithms == {"rmvpe", "harvest", "pm", "crepe"}

\* formant_shift in thousandths: 1000 stands for 1.0.
FormantShifts == {500, 1000, 1005, 1015, 1500, 2000}

\* What librosa.piptrack finds in the vocal of a call: a frame with two
\* peaks, or a frame with none.
ConvPipTracks ==
    { << <<[pitch |-> 220, magnitude |-> 1], [pitch |-> 440, magnitude |-> 2],
           NoPeak>> >>,
      << <<NoPeak, NoPeak, NoPeak>> >> }

\* The arguments of a call, with the pitch analysis of its vocal.
Requests ==
    [pitch_shift : PitchShifts, algorithm : Algorithms,
     formant_shift : FormantShifts, target_voice : TargetVoices,
     piptrack : ConvPipTracks]

\* The exceptions a signal-processing step may raise.
StageErrors == {"ValueError", "ParameterError"}

----------------------------------------------------------------------------
(* convert_voice: the stages *)

\* librosa.load(path, sr=44100): the exception it raises on this content.
load_error(c) ==
    IF c.kind = "absent" THEN "FileNotFoundError"
    ELSE IF c.kind # "audio" THEN "NoBackendError"
    ELSE NoError

\* target_voice_path.replace('.wav', '_preprocessed.wav'); a path without
\* '.wav' comes back as it is.
replace_wav(p) ==
    IF \E d \in Directories, st \in Stems : p = join(d, st \o ".wav")
    THEN join(dirname(p), splitext_basename(p) \o "_preprocessed.wav")
    ELSE p

\* What a stage did: the exception it raised (NoError when it returned), the
\* file system it left, its value, the files it wrote.
StageOutcome(exc, f, value, wrote) ==
    [exc |-> exc, fs |-> f, value |-> value, wrote |-> wrote]

\* except Exception as e: logger.error(...); raise  (preprocess_target_voice)
preprocess_reraise(e) == e

\* preprocess_target_voice: load, denoise, normalise, remove silence, save
\* next to the target. fail is the exception a processing step raises.
preprocess_target_voice(f, d, target, fail) ==
    LET c    == read(f, target)
        path == replace_wav(target)
        w    == sf_write(f, d, path, c.tag \o "+preprocessed",
                         IF c.kind = "audio" THEN c.chans[1] ELSE <<>>, 44100)
    IN  IF load_error(c) # NoError
        THEN StageOutcome(preprocess_reraise(load_error(c)), f, NoPath, <<>>)
        ELSE IF fail # NoError
        THEN StageOutcome(preprocess_reraise(fail), f, NoPath, <<>>)
        ELSE IF ~w.ok
        THEN StageOutcome(preprocess_reraise("LibsndfileError"), f, NoPath, <<>>)
        ELSE StageOutcome(NoError, w.fs, path, <<path>>)

\* generate_embeddings: load the preprocessed target, extract its features.
generate_embeddings(f, path, fail) ==
    LET c == read(f, path)
    IN  IF load_error(c) # NoError
        THEN StageOutcome(load_error(c), f, "", <<>>)
        ELSE IF fail # NoError
        THEN StageOutcome(fail, f, "", <<>>)
        ELSE StageOutcome(NoError, f, "embeddings of " \o c.tag, <<>>)

\* The if/elif/else on algorithm: which extractor runs.
pitch_extractor(algorithm) ==
    IF algorithm = "rmvpe" THEN "extract_pitch_rmvpe"
    ELSE IF algorithm = "harvest" THEN "extract_pitch_harvest"
    ELSE "extract_pitch_pm"

\* librosa.load(path, sr=44100) brings the samples to the rate asked for: a
\* file at half that rate comes back twice as long (each sample held).
resample(y, orig_sr, target_sr) ==
    IF orig_sr = target_sr THEN y
    ELSE [i \in 1..(Len(y) * target_sr) \div orig_sr |->
             y[((i - 1) * orig_sr) \div target_sr + 1]]

\* Mutant: the pitch shift runs whatever the amount.
pitch_shift_due_always(pitch_shift) == TRUE

\* if pitch_shift != 0
pitch_shift_due(pitch_shift) == pitch_shift # 0

\* if abs(formant_shift - 1.0) > 0.01, in thousandths
formant_shift_due(formant_shift) ==
    formant_shift - 1000 > 10 \/ 1000 - formant_shift > 10

\* The if/elif/else on algorithm, applied to the pitch analysis.
extract_pitch(algorithm, pt) ==
    IF algorithm = "rmvpe" THEN extract_pitch_rmvpe(pt)
    ELSE IF algorithm = "harvest" THEN extract_pitch_harvest(pt)
    ELSE extract_pitch_pm(pt)

\* Mutant: the handler raises a generic error instead.
reraise_masked(e) == "RuntimeError"

\* except Exception as e: logger.error(...); raise  (convert_voice)
reraise(e) == e

----------------------------------------------------------------------------
(* convert_voice, stage by stage *)

\* An exception e leaves stage st: the handler logs it and re-raises.
ConvExcept(st, e) ==
    /\ pc' = "done"
    /\ result' = Raise(reraise(e))
    /\ trace' = trace \o <<Enter(st), Raised(st, e)>>
    /\ locals' = locals

\* Stage st completed after writing the files in wrote; the call goes on.
ConvGoOn(st, wrote, to) ==
    /\ pc' = to
    /\ result' = result
    /\ trace' = trace \o <<Enter(st)>>
                      \o [i \in 1..Len(wrote) |-> Wrote(st, wrote[i])]
                      \o <<Returned(st)>>

\* What a processing step does: it returns, or raises one of StageErrors.
Fails == {NoError} \cup StageErrors

\* 1. librosa.load of the vocal and of the target voice at 44100 Hz
ConvLoad ==
    /\ pc = "conv_load"
    /\ LET v == read(fs, vocal_audio)
           t == read(fs, req.target_voice)
       IN  IF load_error(v) # NoError THEN ConvExcept("load", load_error(v))
           ELSE IF load_error(t) # NoError THEN ConvExcept("load", load_error(t))
           ELSE /\ ConvGoOn("load", <<>>, "conv_preprocess")
                /\ locals' = [locals EXCEPT
                                !.vocal_data = v.tag,
                                !.samples = resample(v.chans[1], v.sr, 44100),
                                !.sr = 44100]
    /\ UNCHANGED <<fs, fs0, dirs, lib, req>>

\* 2. preprocess_target_voice(target_voice)
ConvPreprocess ==
    /\ pc = "conv_preprocess"
    /\ \E fail \in Fails :
          LET o == preprocess_target_voice(fs, dirs, req.target_voice, fail)
          IN  /\ fs' = o.fs
              /\ IF o.exc # NoError THEN ConvExcept("preprocess", o.exc)
                 ELSE /\ ConvGoOn("preprocess", o.wrote, "conv_embed")
                      /\ locals' = [locals EXCEPT !.preprocessed_target = o.value]
    /\ UNCHANGED <<fs0, dirs, lib, req>>

\* 2. generate_embeddings(preprocessed_target)
ConvEmbed ==
    /\ pc = "conv_embed"
    /\ \E fail \in Fails :
          LET o == generate_embeddings(fs, locals.preprocessed_target, fail)
          IN  IF o.exc # NoError THEN ConvExcept("embed", o.exc)
              ELSE /\ ConvGoOn("embed", <<>>, "conv_pitch")
                   /\ locals' = [locals EXCEPT !.embeddings = o.value]
    /\ UNCHANGED <<fs, fs0, dirs, lib, req>>

\* 3. pitch extraction with the extractor the algorithm name selects
ConvPitch ==
    /\ pc = "conv_pitch"
    /\ \E fail \in Fails :
          IF fail # NoError THEN ConvExcept("pitch", fail)
          ELSE /\ ConvGoOn("pitch", <<>>, "conv_pitch_shift")
               /\ locals' =
                     [locals EXCEPT
                        !.pitches = pitch_extractor(req.algorithm)
                                    \o "(" \o locals.vocal_data \o ")",
                        !.pitch_values =
                           extract_pitch(req.algorithm, req.piptrack).pitch_values,
                        !.magnitude_values =
                           extract_pitch(req.algorithm, req.piptrack).magnitude_values]
    /\ UNCHANGED <<fs, fs0, dirs, lib, req>>

\* 4. if pitch_shift != 0: pitch_shift_audio, pitches * 2 ** (pitch_shift / 12)
ConvPitchShift ==
    /\ pc = "conv_pitch_shift"
    /\ IF pitch_shift_due(req.pitch_shift)
       THEN \E fail \in Fails :
               IF fail # NoError THEN ConvExcept("pitch_shift", fail)
               ELSE /\ ConvGoOn("pitch_shift", <<>>, "conv_formant_shift")
                    /\ locals' = [locals EXCEPT
                                    !.vocal_data = @ \o "+pitch_shift",
                                    !.pitches = @ \o "*2^(s/12)",
                                    !.pitch_values =
                                       scale_pitches(@, req.pitch_shift)]
       ELSE /\ pc' = "conv_formant_shift"
            /\ UNCHANGED <<result, trace, locals>>
    /\ UNCHANGED <<fs, fs0, dirs, lib, req>>

\* 5. if abs(formant_shift - 1.0) > 0.01: apply_formant_shift
ConvFormantShift ==
    /\ pc = "conv_formant_shift"
    /\ IF formant_shift_due(req.formant_shift)
       THEN \E fail \in Fails :
               IF fail # NoError THEN ConvExcept("formant_shift", fail)
               ELSE /\ ConvGoOn("formant_shift", <<>>, "conv_rvc")
                    /\ locals' = [locals EXCEPT
                                    !.vocal_data = @ \o "+formant_shift"]
       ELSE /\ pc' = "conv_rvc"
            /\ UNCHANGED <<result, trace, locals>>
    /\ UNCHANGED <<fs, fs0, dirs, lib, req>>

\* 6. apply_rvc_conversion: MFCC shift, then formant matching
ConvRvc ==
    /\ pc = "conv_rvc"
    /\ \E fail \in Fails :
          IF fail # NoError THEN ConvExcept("rvc", fail)
          ELSE /\ pc' = "conv_write"
               /\ result' = result
               /\ trace' = trace \o <<Enter("rvc"),
                                      Enter("mfcc_shift"), Returned("mfcc_shift"),
                                      Enter("formant_matching"),
                                      Returned("formant_matching"),
                                      Returned("rvc")>>
               /\ locals' = [locals EXCEPT
                               !.vocal_data = @ \o "+rvc(" \o locals.embeddings \o ")"]
    /\ UNCHANGED <<fs, fs0, dirs, lib, req>>

\* 7. sf.write(output_path, converted_audio, sr); return output_path
ConvWrite ==
    /\ pc = "conv_write"
    /\ LET w == sf_write(fs, dirs, output_path, locals.vocal_data,
                         locals.samples, locals.sr)
       IN  /\ fs' = w.fs
           /\ IF ~w.ok THEN ConvExcept("write", "LibsndfileError")
              ELSE /\ pc' = "done"
                   /\ result' = Return(output_path)
                   /\ trace' = trace \o <<Enter("write"),
                                          Wrote("write", output_path),
                                          Returned("write")>>
                   /\ locals' = locals
    /\ UNCHANGED <<fs0, dirs, lib, req>>

----------------------------------------------------------------------------
(* The conversion call from every starting condition *)

\* The vocal and the target voice are missing, unreadable or audio; the
\* output file is the empty file tempfile.mkstemp created, or does not exist
\* yet (and then its directory may be missing too).
InitConv ==
    /\ \E v \in {Absent, Garbage}
                 \cup {Audio("vocal", sr, <<y>>) : sr \in SampleRates, y \in Waveforms} :
       \E t \in {Absent, Garbage, Audio("target", 44100, << <<200, -200>> >>)} :
       \E pre \in BOOLEAN, outdir \in BOOLEAN :
          /\ req \in Requests
          /\ pre => outdir
          /\ dirs = {"uploads"} \cup (IF outdir THEN {dirname(output_path)} ELSE {})
          /\ fs = [p \in (IF v = Absent THEN {} ELSE {vocal_audio})
                          \cup (IF t = Absent THEN {} ELSE {req.target_voice})
                          \cup (IF pre THEN {output_path} ELSE {}) |->
                     IF p = vocal_audio THEN v
                     ELSE IF p = output_path THEN EmptyFile ELSE t]
    /\ fs0 = fs
    /\ lib = [librosa |-> TRUE, pedalboard |-> FALSE]
    /\ pc = "conv_load"
    /\ result = NoResult
    /\ trace = <<>>
    /\ locals = NoLocals

NextConv ==
    \/ ConvLoad
    \/ ConvPreprocess
    \/ ConvEmbed
    \/ ConvPitch
    \/ ConvPitchShift
    \/ ConvFormantShift
    \/ ConvRvc
    \/ ConvWrite

SpecConv == InitConv /\ [][NextConv]_vars

----------------------------------------------------------------------------
(* Two conversion calls in sequence *)

\* The entry of the trace that marks the start of the second call.
SecondCall == Ev("call", "second", "", NoPath)

\* The caller calls convert_voice again with the same arguments, on the
\* files as the first call left them.
ConvAgain ==
    /\ pc = "done"
    /\ result = Return(output_path)
    /\ SecondCall \notin {trace[i] : i \in DOMAIN trace}
    /\ pc' = "conv_load"
    /\ result' = NoResult
    /\ locals' = NoLocals
    /\ fs0' = fs
    /\ trace' = Append(trace, SecondCall)
    /\ UNCHANGED <<fs, dirs, lib, req>>

NextTwice ==
    \/ NextConv
    \/ ConvAgain

SpecTwice == InitConv /\ [][NextTwice]_vars

----------------------------------------------------------------------------
(* Two concurrent requests on the same target voice *)

Procs == {"p1", "p2"}

\* A file that sf.write has opened (created or truncated) and not yet closed.
Partial(tag) == [kind |-> "partial", tag |-> tag, sr |-> 44100, chans |-> <<>>]

\* What librosa.load may make of the content of a file: a file that is still
\* being written is unreadable, or readable up to what has been written.
Loadable(c) ==
    IF c.kind = "partial" THEN {c, Audio("part of " \o c.tag, c.sr, <<<<>>>>)}
    ELSE {c}

\* One step of a request: what it touched, and where it stands afterwards.
\* A step that raises ends the request (every handler re-raises).
ConcStep(p, st, ev, path, exc, to) ==
    /\ trace' = Append(trace, Ev(ev, st, p, path))
    /\ IF exc # NoError
       THEN /\ pc' = [pc EXCEPT ![p] = "done"]
            /\ result' = [result EXCEPT ![p] = Raise(exc)]
       ELSE /\ pc' = [pc EXCEPT ![p] = to]
            /\ result' = result

\* convert_voice: librosa.load(target_voice, sr=44100)
ConcLoad(p) ==
    /\ pc[p] = "conv_load"
    /\ \E c \in Loadable(read(fs, req.target_voice)) :
          ConcStep(p, "load", "read", req.target_voice, load_error(c),
                   "pre_load")
    /\ UNCHANGED <<fs, fs0, dirs, lib, req, locals>>

\* preprocess_target_voice: librosa.load, then the processing steps
ConcPreLoad(p) ==
    /\ pc[p] = "pre_load"
    /\ \E c \in Loadable(read(fs, req.target_voice)) :
          /\ ConcStep(p, "preprocess", "read", req.target_voice, load_error(c),
                      "pre_open")
          /\ locals' = [locals EXCEPT ![p].vocal_data = c.tag]
    /\ UNCHANGED <<fs, fs0, dirs, lib, req>>

\* preprocess_target_voice: sf.write opens the preprocessed path
ConcPreOpen(p) ==
    /\ pc[p] = "pre_open"
    /\ LET path == replace_wav(req.target_voice)
       IN  /\ fs' = put(fs, path, Partial(locals[p].vocal_data \o "+preprocessed"))
           /\ ConcStep(p, "preprocess", "open", path, NoError, "pre_close")
           /\ locals' = [locals EXCEPT ![p].preprocessed_target = path]
    /\ UNCHANGED <<fs0, dirs, lib, req>>

\* preprocess_target_voice: sf.write has written every frame and closes
ConcPreClose(p) ==
    /\ pc[p] = "pre_close"
    /\ LET path == locals[p].preprocessed_target
       IN  /\ fs' = put(fs, path,
                        Audio(locals[p].vocal_data \o "+preprocessed", 44100, <<<<>>>>))
           /\ ConcStep(p, "preprocess", "write", path, NoError, "conv_embed")
    /\ UNCHANGED <<fs0, dirs, lib, req, locals>>

\* generate_embeddings: librosa.load(preprocessed_target), feature extraction
ConcEmbed(p) ==
    /\ pc[p] = "conv_embed"
    /\ LET path == locals[p].preprocessed_target
       IN  \E c \in Loadable(read(fs, path)) :
              /\ ConcStep(p, "embed", "read", path, load_error(c), "done")
              /\ locals' = [locals EXCEPT ![p].embeddings =
                               IF load_error(c) = NoError
                               THEN "embeddings of " \o c.tag ELSE @]
    /\ UNCHANGED <<fs, fs0, dirs, lib, req>>

\* Two requests arrive for the same target voice file.
InitConc ==
    /\ req \in [target_voice : TargetVoices]
    /\ \E t \in {Garbage, Audio("target", 44100, <<<<>>>>),
                 Audio("target", 22050, <<<<>>>>)} :
          fs = [q \in {req.target_voice} |-> t]
    /\ fs0 = fs
    /\ dirs = {"uploads"}
    /\ lib = [librosa |-> TRUE, pedalboard |-> FALSE]
    /\ pc = [p \in Procs |-> "conv_load"]
    /\ result = [p \in Procs |-> NoResult]
    /\ locals = [p \in Procs |-> NoLocals]
    /\ trace = <<>>

NextConc ==
    \E p \in Procs :
       \/ ConcLoad(p)
       \/ ConcPreLoad(p)
       \/ ConcPreOpen(p)
       \/ ConcPreClose(p)
       \/ ConcEmbed(p)

SpecConc == InitConc /\ [][NextConc]_vars

----------------------------------------------------------------------------
(* Noise removal of the target preprocessor *)

\* The signal is modelled at a reduced scale: a frame of the short-time
\* spectrum every HopLength samples, a few samples per second, one
\* frequency bin.  MaxSamples bounds the length of the signal.
HopLength == 2
MaxSamples == 6
NoiseRates == {4, 8}
FrameMagnitudes == {0, 10, 20}

\* librosa.stft (centred): the number of frames of a signal of that length
n_frames(length) == 1 + length \div HopLength

Max(a, b) == IF a > b THEN a ELSE b

RECURSIVE Sum(_)
Sum(s) == IF s = <<>> THEN 0 ELSE Head(s) + Sum(Tail(s))

\* np.mean(noise_frame, axis=1): the mean of the frames taken
mean(frames) == Sum(frames) \div Len(frames)

\* int(0.5 * sr)
noise_length(sr) == sr \div 2

\* magnitude[:, :noise_length]: the first noise_length columns (frames)
noise_frame_indices(magnitude, sr) == 1 .. Min({noise_length(sr), Len(magnitude)})

\* if noise_length < len(audio_data)
noise_removal_due(length, sr) == noise_length(sr) < length

Denoised(applied, used, profile, cleaned) ==
    [applied |-> applied, noise_frame |-> used, noise_profile |-> profile,
     magnitude |-> cleaned]

remove_noise_simple(magnitude, length, sr) ==
    IF noise_removal_due(length, sr)
    THEN LET used    == noise_frame_indices(magnitude, sr)
             profile == mean([t \in used |-> magnitude[t]])
         IN  Denoised(TRUE, used, profile,
                      [t \in DOMAIN magnitude |->
                          Max(magnitude[t] - profile \div 2, magnitude[t] \div 10)])
    ELSE Denoised(FALSE, {}, 0, magnitude)

InitNoise ==
    /\ \E length \in 1 .. MaxSamples, sr \in NoiseRates :
          \E magnitude \in [1 .. n_frames(length) -> FrameMagnitudes] :
             req = [length |-> length, sr |-> sr, magnitude |-> magnitude]
    /\ fs = NoFiles /\ fs0 = NoFiles /\ dirs = {}
    /\ lib = [librosa |-> TRUE, pedalboard |-> FALSE]
    /\ pc = "remove_noise_simple"
    /\ result = NoResult
    /\ locals = NoLocals
    /\ trace = <<>>

RemoveNoiseSimple ==
    /\ pc = "remove_noise_simple"
    /\ result' = Return(remove_noise_simple(req.magnitude, req.length, req.sr))
    /\ pc' = "denoised"
    /\ UNCHANGED <<fs, fs0, dirs, lib, req, locals, trace>>

NextNoise == RemoveNoiseSimple

SpecNoise == InitNoise /\ [][NextNoise]_vars

----------------------------------------------------------------------------
(* verify_audio_file and the separate_audio stub *)

\* Python values handed to verify_audio_file.
None == [t |-> "NoneType"]

PyInt(n) == [t |-> "int", n |-> n]

Array(data) == [t |-> "ndarray", data |-> data]

Str(s) == [t |-> "str", s |-> s]

Tuple(items) == [t |-> "tuple", items |-> items]

\* A file as the validators see it: its size in bytes, its duration in
\* milliseconds, and the decoders that read it as audio.
Media(kind, size, duration, readers) ==
    [kind |-> kind, tag |-> "recording", sr |-> 44100, chans |-> <<>>,
     size |-> size, duration |-> duration, readers |-> readers]

FileSizes == {1023, 1024, 4096}

Durations == {0, 99, 100, 250}

\* librosa.load reads through soundfile first and through audioread after
\* it, so what soundfile reads librosa reads too.
MediaFiles ==
    {Media("audio", s, d, r) :
        s \in FileSizes, d \in Durations,
        r \in {{"soundfile", "librosa"}, {"librosa"}}}
    \cup {Media("garbage", s, 0, {}) : s \in FileSizes \cup {0}}

\* The truth value of `v <= 0`, or the exception it raises.
le_zero(v) ==
    CASE v.t = "int"     -> IF v.n <= 0 THEN "True" ELSE "False"
      [] v.t = "ndarray" -> IF Len(v.data) = 1
                            THEN IF v.data[1] <= 0 THEN "True" ELSE "False"
                            ELSE "ValueError"
      [] OTHER           -> "TypeError"

\* The truth value of `len(v) == 0`, or the exception it raises.
len_is_zero(v) ==
    CASE v.t = "ndarray" -> IF Len(v.data) = 0 THEN "True" ELSE "False"
      [] OTHER           -> "TypeError"

\* The tuple branch: "True" or "False" when it returns, else the exception.
verify_tuple(items) ==
    IF Len(items) # 2 THEN "ValueError"
    ELSE LET sample_rate == items[1]
             audio_data  == items[2]
         IN  CASE le_zero(sample_rate) = "True"  -> "False"
               [] le_zero(sample_rate) # "False" -> le_zero(sample_rate)
               [] audio_data.t = "NoneType"      -> "False"
               [] len_is_zero(audio_data) = "True"  -> "False"
               [] len_is_zero(audio_data) # "False" -> len_is_zero(audio_data)
               [] OTHER                          -> "True"

\* Mutant: the decoders are consulted whether imported or not.
libraries_present_assumed(lb) == TRUE
\* if sf is not None and librosa is not None
libraries_present(lb) == lb.soundfile /\ lb.librosa

\* sf.info, and librosa.load after it when sf.info raises
verify_decoders(c) ==
    IF "soundfile" \in c.readers THEN c.duration >= 100
    ELSE IF "librosa" \in c.readers THEN c.duration > 0
    ELSE FALSE

\* The string branch and the library checks after it.
verify_path(f, lb, file_path) ==
    IF ~exists(f, file_path) THEN FALSE
    ELSE IF f[file_path].size < 1024 THEN FALSE
    ELSE IF libraries_present(lb) THEN verify_decoders(f[file_path])
    ELSE TRUE

\* except Exception as e: logger.error(f"... {file_path} - {e}"); return False.
\* The handler formats file_path, which only the string branch binds.
verify_handler(bound) ==
    IF bound THEN Return(FALSE) ELSE Raise("UnboundLocalError")

verify_audio_file(f, lb, file_path_or_tuple) ==
    CASE file_path_or_tuple.t = "tuple" ->
            LET r == verify_tuple(file_path_or_tuple.items)
            IN  IF r \in {"True", "False"} THEN Return(r = "True")
                ELSE verify_handler(FALSE)
      [] file_path_or_tuple.t = "str" ->
            Return(verify_path(f, lb, file_path_or_tuple.s))
      [] OTHER ->
            \* neither branch runs: every later use of file_path raises,
            \* the last of them inside the outer handler
            verify_handler(FALSE)

\* Path(audio_path).parent / f"{Path(audio_path).stem}<suffix>"
stub_path(audio_path, suffix) ==
    join(dirname(audio_path), splitext_basename(audio_path) \o suffix)

\* Mutant: the input itself is handed back as the vocal stem.
vocal_path_in_place(audio_path) == audio_path
vocal_path(audio_path) == stub_path(audio_path, "_direct_vocal.wav")

instrumental_path(audio_path) == stub_path(audio_path, "_direct_instrumental.wav")

AudioPaths == {"music/song.wav", "music/song.mp3"}

Arrays == {<<>>, <<100, -100>>}

VerifyArguments ==
    {Str(p) : p \in AudioPaths}
    \cup {None, Tuple(<<>>), Tuple(<<PyInt(44100)>>),
          Tuple(<<PyInt(44100), Array(<<100, -100>>), PyInt(2)>>)}
    \cup {Tuple(<<PyInt(n), a>>) :
              n \in {0, 44100}, a \in {None} \cup {Array(d) : d \in Arrays}}
    \cup {Tuple(<<Array(<<100, -100>>), PyInt(22050)>>)}

InitVerify ==
    /\ \E p \in AudioPaths :
          fs \in {NoFiles} \cup {[q \in {p} |-> c] : c \in MediaFiles}
    /\ fs0 = fs
    /\ dirs = {"music"}
    /\ lib \in [librosa : BOOLEAN, soundfile : BOOLEAN, pedalboard : {FALSE}]
    /\ \/ /\ pc = "verify_audio_file"
          /\ req \in [arg : VerifyArguments]
       \/ /\ pc = "separate_audio"
          /\ req \in [audio_path : AudioPaths, mode : {"standard", "pro"}]
    /\ result = NoResult
    /\ locals = NoLocals
    /\ trace = <<>>

VerifyAudioFile ==
    /\ pc = "verify_audio_file"
    /\ result' = verify_audio_file(fs, lib, req.arg)
    /\ pc' = "verified"
    /\ UNCHANGED <<fs, fs0, dirs, lib, req, locals, trace>>

SeparateAudio ==
    /\ pc = "separate_audio"
    /\ pc' = "stub_done"
    /\ IF ~exists(fs, req.audio_path)
       THEN /\ result' = Raise("FileNotFoundError")
            /\ fs' = fs
       ELSE IF verify_audio_file(fs, lib, Str(req.audio_path)) # Return(TRUE)
       THEN /\ result' = Raise("RuntimeError")
            /\ fs' = fs
       ELSE \* the copies go to the directory the input is in
            /\ fs' = put(put(fs, vocal_path(req.audio_path), fs[req.audio_path]),
                         instrumental_path(req.audio_path), fs[req.audio_path])
            /\ result' = Return([vocal |-> vocal_path(req.audio_path),
                                 instrumental |-> instrumental_path(req.audio_path),
                                 backup_vocals |-> None])
    /\ UNCHANGED <<fs0, dirs, lib, req, locals, trace>>

NextVerify == VerifyAudioFile \/ SeparateAudio

SpecVerify == InitVerify /\ [][NextVerify]_vars

----------------------------------------------------------------------------
(* The formant filter on given formants *)

\* Sorted formant sets of one to four formants.
FormantSets ==
    {<<700>>, <<51, 1999>>, <<700, 1220>>, <<700, 1220, 2600>>,
     <<500, 1000, 1500, 2500>>}

\* np.angle(stft) of one frame, in milliradians
Phases(sr) ==
    {[b \in DOMAIN fft_frequencies(sr) |-> 0],
     [b \in DOMAIN fft_frequencies(sr) |-> 90 * b - 1500]}

\* shifted_magnitude * np.exp(1j * phase): the spectrum in polar form
polar(magnitude, phase) == [magnitude |-> magnitude, phase |-> phase]

InitFilter ==
    /\ \E sr \in FormantRates :
          req \in [sr : {sr}, magnitude : Spectra(sr), phase : Phases(sr),
                   formants : FormantSets,
                   formant_shift : {500, 1000, 1005, 1500}]
    /\ pc = "apply_formant_shift_filter"
    /\ fs = NoFiles
    /\ fs0 = NoFiles
    /\ dirs = {}
    /\ lib = [librosa |-> TRUE, pedalboard |-> FALSE]
    /\ result = NoResult
    /\ trace = <<>>
    /\ locals = [NoLocals EXCEPT !.magnitude_values = req.magnitude]

\* apply_formant_shift from the filter on: the filter works on a copy of the
\* caller's magnitude (locals.magnitude_values), the phase is reattached.
ApplyFormantShiftFilter ==
    /\ pc = "apply_formant_shift_filter"
    /\ LET shifted_magnitude ==
              apply_formant_shift_filter(locals.magnitude_values,
                  fft_frequencies(req.sr), req.formants, req.formant_shift)
       IN  result' = Return(polar(shifted_magnitude, req.phase))
    /\ pc' = "filtered"
    /\ UNCHANGED <<fs, fs0, dirs, lib, trace, req, locals>>

NextFilter == ApplyFormantShiftFilter

SpecFilter == InitFilter /\ [][NextFilter]_vars

----------------------------------------------------------------------------
(* Formant matching, the last step of apply_rvc_conversion *)

\* target_formants[:min_len] / (current_formants[:min_len] + 1e-10), in
\* thousandths
formant_ratios(target_formants, current_formants) ==
    [i \in 1 .. Min({Len(target_formants), Len(current_formants)}) |->
        (target_formants[i] * 1000) \div current_formants[i]]

Matched(ratio, magnitude) == [formant_shift |-> ratio, magnitude |-> magnitude]

\* apply_formant_matching on a signal given by the magnitudes of its
\* spectrum; the ratio handed to apply_formant_shift is kept with the result
\* (0 when the signal is returned as it is).
apply_formant_matching(magnitude, length, sr, lpc, target_formants) ==
    LET current_formants == estimate_formants(length, sr, lpc).formants
    IN  IF Len(current_formants) > 0 /\ Len(target_formants) > 0
        THEN LET ratio == mean(formant_ratios(target_formants, current_formants))
             IN  Matched(ratio, apply_formant_shift(magnitude, length, sr, lpc, ratio))
        ELSE Matched(0, magnitude)

\* The frequencies the roots of the two analyses may stand for.
MatchFreqs == {350, 700, 3000}

MatchOutcomes ==
    {LpcRaises("ValueError")}
    \cup {LpcYields(fr) : fr \in UNION {[1..n -> MatchFreqs] : n \in 0..2}}

\* The target voice (analysed by generate_embeddings) and the converted
\* vocal (analysed by apply_formant_matching), both at 44.1 kHz.
InitMatch ==
    /\ req \in [sr : {44100}, magnitude : Spectra(44100),
                length : {100, 1300}, lpc : MatchOutcomes,
                target_length : {100, 1300}, target_lpc : MatchOutcomes]
    /\ pc = "apply_formant_matching"
    /\ fs = NoFiles
    /\ fs0 = NoFiles
    /\ dirs = {}
    /\ lib = [librosa |-> TRUE, pedalboard |-> FALSE]
    /\ result = NoResult
    /\ trace = <<>>
    /\ locals = NoLocals

\* generate_embeddings' estimate of the target, then apply_formant_matching
ApplyFormantMatching ==
    /\ pc = "apply_formant_matching"
    /\ LET formant_freqs ==
              estimate_formants(req.target_length, req.sr, req.target_lpc).formants
       IN  result' = Return(apply_formant_matching(req.magnitude, req.length,
                                                   req.sr, req.lpc, formant_freqs))
    /\ pc' = "matched"
    /\ UNCHANGED <<fs, fs0, dirs, lib, trace, req, locals>>

NextMatch == ApplyFormantMatching

SpecMatch == InitMatch /\ [][NextMatch]_vars

----------------------------------------------------------------------------
(* Reading the trace *)

Events == {trace[i] : i \in DOMAIN trace}

Entered(st) == Enter(st) \in Events

RaisedIn(st) == \E e \in Events : e.ev = "raise" /\ e.st = st

WritersOfOutputs == {e.st : e \in {x \in Events : x.ev = "write"}}

\* No write, copy or move to an output path can fail for want of its
\* directory.
OutputDirsExist ==
    {dirname(vocal_output_path), dirname(instrumental_output_path)} \subseteq dirs

ReturnedPaths == Return(<<vocal_output_path, instrumental_output_path>>)

IsStereo(c) == c.kind = "audio" /\ Len(c.chans) = 2

IsMono(c) == c.kind = "audio" /\ Len(c.chans) = 1

----------------------------------------------------------------------------
(* The separation fallback chain: claims *)

C3_AsStated ==
    (pc = "done" /\ RaisedIn("A") /\ RaisedIn("B"))
        => /\ Entered("C")
           /\ read(fs, vocal_output_path) = read(fs0, input_music_path)
           /\ read(fs, instrumental_output_path) = read(fs0, input_music_path)
           /\ read(fs, input_music_path) = read(fs0, input_music_path)
           /\ result = ReturnedPaths

\* C3 (amended): when State A and State B both fail, State C runs and the
\* input is unchanged; if both copies succeed the output files are
\* byte-identical to the input mix and the call returns the two output
\* paths, and if a copy raises (a missing output directory) the call ends
\* with that exception.
C3_PassThroughCopies ==
    (pc = "done" /\ RaisedIn("A") /\ RaisedIn("B"))
        => /\ Entered("C")
           /\ read(fs, input_music_path) = read(fs0, input_music_path)
           /\ IF OutputDirsExist
              THEN /\ read(fs, vocal_output_path) = read(fs0, input_music_path)
                   /\ read(fs, instrumental_output_path) = read(fs0, input_music_path)
                   /\ result = ReturnedPaths
              ELSE result = Raise("FileNotFoundError")

C3_Witness ==
    /\ pc = "done"
    /\ RaisedIn("A") /\ RaisedIn("B") /\ Returned("C") \in Events
    /\ read(fs, instrumental_output_path) = read(fs0, input_music_path)
    /\ read(fs0, instrumental_output_path) # read(fs0, input_music_path)

\* C4 (as stated): any exception inside State B, a failure of the pedalboard
\* chain included, sends the call to State C, and State B never returns
\* after one of its steps has raised.
C4_AsStated ==
    (\E e \in Events : e.st = "B" /\ e.ev \in {"raise", "caught"})
        => Entered("C") /\ Returned("B") \notin Events

\* C4 (amended): any exception that leaves State B is followed at once by
\* State C and State B does not return; a failure of the pedalboard chain
\* does not leave State B: it is caught there, the vocal estimate is written
\* without effects, and State B returns whenever the mix loads and both
\* output files can be written.
C4_StateBFailureEntersC ==
    /\ \A i \in DOMAIN trace :
          (trace[i].ev = "raise" /\ trace[i].st = "B") =>
              /\ i < Len(trace)
              /\ trace[i + 1] = Enter("C")
              /\ Returned("B") \notin Events
    /\ (Caught("B", "pedalboard") \in Events /\ Returned("B") \in Events)
          => read(fs, vocal_output_path).tag = "vocal"
    /\ (Entered("B") /\ pc # "B" /\ lib.librosa
          /\ read(fs0, input_music_path).kind = "audio" /\ OutputDirsExist)
          => Returned("B") \in Events

C4_Witness ==
    /\ Caught("B", "pedalboard") \in Events
    /\ Returned("B") \in Events
    /\ result = ReturnedPaths

\* C5: in every call at most one of the three strategies writes to the
\* output paths; a state that fails has written nothing to them.
C5_AsStated == Cardinality(WritersOfOutputs) <= 1

\* C6: when the external model call succeeds, State A completes and returns
\* with both output files present.
C6_AsStated ==
    (Separated \in Events /\ pc # "A_place")
        => /\ Returned("A") \in Events
           /\ result = ReturnedPaths
           /\ exists(fs, vocal_output_path)
           /\ exists(fs, instrumental_output_path)

\* C7: State B on a stereo mix (L, R) without the effects library writes, at
\* the mix's sample rate, a vocal stem equal to preemphasis((L+R)/2) and an
\* instrumental stem equal to L-R, sample by sample. In fixed point, with
\* m[n] = (L[n]+R[n])/2: vocal[1] = m[1] + (2*m[1] - m[2]), and
\* vocal[n] = m[n] - 0.97*m[n-1] for n > 1.
C7_MidSideStems ==
    (Returned("B") \in Events /\ IsStereo(read(fs0, input_music_path)) /\ ~lib.pedalboard)
        => LET mix  == read(fs0, input_music_path)
               L    == mix.chans[1]
               R    == mix.chans[2]
               voc  == read(fs, vocal_output_path)
               inst == read(fs, instrumental_output_path)
           IN  /\ voc.kind = "audio" /\ inst.kind = "audio"
               /\ voc.sr = mix.sr /\ inst.sr = mix.sr
               /\ Len(voc.chans) = 1 /\ Len(inst.chans) = 1
               /\ Len(voc.chans[1]) = Len(L) /\ Len(inst.chans[1]) = Len(L)
               /\ voc.tag = "vocal"
               /\ \A n \in 1..Len(L) :
                     /\ inst.chans[1][n] = L[n] - R[n]
                     /\ IF n = 1
                        THEN 2 * voc.chans[1][1] = 3 * (L[1] + R[1]) - (L[2] + R[2])
                        ELSE 200 * voc.chans[1][n] =
                                100 * (L[n] + R[n]) - 97 * (L[n - 1] + R[n - 1])

C7_Witness ==
    /\ Returned("B") \in Events
    /\ IsStereo(read(fs0, input_music_path))
    /\ ~lib.pedalboard
    /\ \E n \in 1..Len(read(fs0, input_music_path).chans[1]) :
          read(fs0, input_music_path).chans[1][n] # read(fs0, input_music_path).chans[2][n]

\* C8 (as stated): State B on a mono mix writes a vocal stem derived from the
\* original signal and an instrumental stem that is about the original
\* signal, not silence.
C8_AsStated ==
    (Returned("B") \in Events /\ IsMono(read(fs0, input_music_path)))
        => LET w    == read(fs0, input_music_path).chans[1]
               inst == read(fs, instrumental_output_path).chans[1]
           IN  (\E n \in 1..Len(w) : w[n] # 0) => (\E n \in 1..Len(inst) : inst[n] # 0)

\* C8 (amended): State B on a mono mix w doubles the channel (L = R = w); the
\* vocal stem is derived from the original signal (preemphasis(w), when no
\* effect is applied) and the instrumental stem L-R is silence: as many
\* samples as w at the rate of w, every one of them zero.
C8_MonoGivesSilentInstrumental ==
    (Returned("B") \in Events /\ IsMono(read(fs0, input_music_path)))
        => LET mix  == read(fs0, input_music_path)
               w    == mix.chans[1]
               voc  == read(fs, vocal_output_path)
               inst == read(fs, instrumental_output_path)
           IN  /\ inst.kind = "audio" /\ inst.sr = mix.sr
               /\ Len(inst.chans) = 1 /\ Len(inst.chans[1]) = Len(w)
               /\ \A n \in 1..Len(w) : inst.chans[1][n] = 0
               /\ voc.kind = "audio" /\ voc.sr = mix.sr
               /\ Len(voc.chans) = 1 /\ Len(voc.chans[1]) = Len(w)
               /\ voc.tag = "vocal" =>
                     \A n \in 1..Len(w) :
                        IF n = 1
                        THEN voc.chans[1][1] = 3 * w[1] - w[2]
                        ELSE 100 * voc.chans[1][n] = 100 * w[n] - 97 * w[n - 1]

C8_Witness ==
    /\ Returned("B") \in Events
    /\ IsMono(read(fs0, input_music_path))
    /\ \E n \in 1..Len(read(fs0, input_music_path).chans[1]) :
          read(fs0, input_music_path).chans[1][n] # 0

\* C9: when the input mix path does not exist the call raises
\* FileNotFoundError at once: no state of the chain is attempted and no file
\* is created or modified.
C9_MissingInputFailsFast ==
    (pc # "call" /\ ~exists(fs0, input_music_path))
        => /\ pc = "done"
           /\ result = Raise("FileNotFoundError")
           /\ trace = <<>>
           /\ fs = fs0

C9_Witness ==
    /\ pc = "done"
    /\ ~exists(fs0, input_music_path)
    /\ result.kind = "raise"

----------------------------------------------------------------------------
(* Reading the trace of a conversion *)

\* The stages whose failure aborts the conversion before the final write.
ProcessingStages ==
    {"load", "preprocess", "embed", "pitch", "pitch_shift", "formant_shift", "rvc"}

\* The stages this request has to complete before the output is written.
StagesDue ==
    {"load", "preprocess", "embed", "pitch", "rvc"}
    \cup (IF req.pitch_shift # 0 THEN {"pitch_shift"} ELSE {})
    \cup (IF req.formant_shift - 1000 > 10 \/ 1000 - req.formant_shift > 10
          THEN {"formant_shift"} ELSE {})

RaiseAt == {i \in DOMAIN trace : trace[i].ev = "raise"}

OutputWriteAt ==
    {i \in DOMAIN trace : trace[i].ev = "write" /\ trace[i].path = output_path}

TimesEntered(st) == Cardinality({i \in DOMAIN trace : trace[i] = Enter(st)})

----------------------------------------------------------------------------
(* C10 *)

\* C10: when a stage of convert_voice raises (loading, target preprocessing,
\* embedding, pitch extraction, pitch shift, formant shift, MFCC/formant
\* conversion), the call is over with that raise as its last step, the caller
\* gets exactly the exception the stage raised, no stage has run twice, and
\* output_path holds what it held before the call with no write to it. A
\* write to output_path happens only in the final stage, after every stage the
\* request calls for has returned, and the call then returns output_path.
C10_FailureAbortsUnmasked ==
    /\ \A i \in RaiseAt :
          /\ i = Len(trace)
          /\ pc = "done"
          /\ result = Raise(trace[i].arg)
          /\ \A st \in ProcessingStages \cup {"write"} : TimesEntered(st) <= 1
          /\ trace[i].st \in ProcessingStages =>
                /\ OutputWriteAt = {}
                /\ read(fs, output_path) = read(fs0, output_path)
    /\ \A i \in OutputWriteAt :
          /\ trace[i].st = "write"
          /\ \A st \in StagesDue :
                \E j \in 1..(i - 1) : trace[j] = Returned(st)
          /\ \A j \in DOMAIN trace : trace[j].ev = "enter" => j < i
          /\ pc = "done"
          /\ result = Return(output_path)
    /\ read(fs, output_path) # read(fs0, output_path) => OutputWriteAt # {}

\* The conversion step raised after loading, preprocessing (which wrote the
\* preprocessed target), embedding, pitch extraction, pitch shift and formant
\* shift had completed; the caller's empty output file is still there.
C10_Witness ==
    /\ pc = "done"
    /\ result = Raise("ParameterError")
    /\ Raised("rvc", "ParameterError") \in Events
    /\ Returned("pitch_shift") \in Events
    /\ Returned("formant_shift") \in Events
    /\ \E i \in DOMAIN trace : trace[i].ev = "write" /\ trace[i].st = "preprocess"
    /\ fs # fs0
    /\ read(fs0, output_path) = EmptyFile

----------------------------------------------------------------------------
(* C11 *)

IsStageEvent(e) == e.ev \in {"enter", "return"} /\ e.st # "rvc"

\* The starts and completions of the stages, in the order they happened
\* (apply_rvc_conversion is seen through its two steps).
StageEvents == SelectSeq(trace, IsStageEvent)

\* A stage that started, completed, and let nothing else start meanwhile.
Ran(st) == <<Enter(st), Returned(st)>>

PitchExtractors ==
    {"extract_pitch_rmvpe", "extract_pitch_harvest", "extract_pitch_pm"}

\* C11: when convert_voice has returned, its stages ran once each, one after
\* the other, in the order load, preprocess target, embed target, pitch
\* extraction, pitch shift (exactly when semitones # 0), formant shift
\* (exactly when the ratio is more than 0.01 away from 1.0), MFCC shift,
\* formant matching, write; the vocal was loaded at 44100 Hz, the output is
\* written at that rate, and the pitch track was taken from the vocal as
\* loaded, before any shift.
C11_StagesOnceInOrder ==
    result = Return(output_path) =>
       /\ StageEvents =
             Ran("load") \o Ran("preprocess") \o Ran("embed") \o Ran("pitch")
             \o (IF req.pitch_shift # 0 THEN Ran("pitch_shift") ELSE <<>>)
             \o (IF req.formant_shift > 1010 \/ req.formant_shift < 990
                 THEN Ran("formant_shift") ELSE <<>>)
             \o Ran("mfcc_shift") \o Ran("formant_matching") \o Ran("write")
       /\ locals.sr = 44100
       /\ read(fs, output_path).sr = 44100
       /\ \E x \in PitchExtractors :
             locals.pitches = x \o "(" \o read(fs0, vocal_audio).tag \o ")"
                                \o (IF req.pitch_shift # 0 THEN "*2^(s/12)" ELSE "")

\* A call that returned after both optional stages were skipped, on a vocal
\* file that had to be brought from 22050 Hz to 44100 Hz.
C11_Witness ==
    /\ result = Return(output_path)
    /\ req.pitch_shift = 0
    /\ req.formant_shift = 1005
    /\ read(fs0, vocal_audio).sr = 22050
    /\ Len(locals.samples) = 2 * Len(read(fs0, vocal_audio).chans[1])

----------------------------------------------------------------------------
(* C12 *)

\* The parameter ranges the interface offers (app.py sliders and dropdown).
ValidRequest ==
    /\ req.pitch_shift \in -12..12
    /\ req.formant_shift \in 500..1500
    /\ req.algorithm \in {"pm", "harvest", "rmvpe"}

\* C12: a request whose pitch shift, formant ratio or algorithm name is out
\* of range is rejected: no stage processes it, the call does not return a
\* converted file, and no extractor runs for an unknown algorithm name.
C12_AsStated ==
    ~ValidRequest =>
       /\ result.kind # "return"
       /\ locals.pitches = ""
       /\ \A e \in Events : e.ev # "return"

----------------------------------------------------------------------------
(* C18 *)

\* The bins of a frame whose magnitude no other bin of the frame exceeds.
MostSalient(frame) ==
    {b \in Bins : \A c \in Bins : frame[c].magnitude <= frame[b].magnitude}

\* C18: an extractor returns one pitch and one magnitude per frame, and for
\* every frame they are the pitch and the magnitude of a bin of maximal
\* magnitude in that frame.
C18_AsStated ==
    result.kind = "return" =>
       /\ Len(result.value.pitch_values) = Len(req.piptrack)
       /\ Len(result.value.magnitude_values) = Len(req.piptrack)
       /\ \A t \in 1..Len(req.piptrack) :
             \E b \in MostSalient(req.piptrack[t]) :
                /\ result.value.pitch_values[t] = req.piptrack[t][b].pitch
                /\ result.value.magnitude_values[t] = req.piptrack[t][b].magnitude

----------------------------------------------------------------------------
(* C13 *)

\* The step that follows the pitch shift has been reached.
PastPitchShift ==
    pc \in {"conv_formant_shift", "conv_rvc", "conv_write"}
    \/ (pc = "done" /\ result.kind = "return")

\* The pitch track as the extractor returned it.
Extracted == main_pitch_track(req.piptrack).pitch_values

\* C13: once the pitch-shift step is past, for s = 12 every element of the
\* pitch track is exactly twice the extracted one, for s = -12 exactly half
\* of it, for s = 13 the extracted one times 2 * 2^(1/12) (1.059 to three
\* places), and for every non-zero s the vocal has been pitch-shifted; for s = 0 the pitch track is the extracted
\* one and the vocal is the one loaded.
C13_PitchTrackScaled ==
    PastPitchShift =>
       /\ Len(locals.pitch_values) = Len(Extracted)
       /\ \A t \in 1..Len(Extracted) :
             /\ req.pitch_shift = 12 => locals.pitch_values[t] = 2 * Extracted[t]
             /\ req.pitch_shift = -12 => 2 * locals.pitch_values[t] = Extracted[t]
             /\ req.pitch_shift = 13 =>
                   locals.pitch_values[t] = (Extracted[t] * 2 * 1059) \div 1000
             /\ req.pitch_shift = 0 => locals.pitch_values[t] = Extracted[t]
       /\ req.pitch_shift # 0 <=>
             \E i \in DOMAIN trace : trace[i] = Returned("pitch_shift")
       /\ pc = "conv_formant_shift" =>
             locals.vocal_data = read(fs0, vocal_audio).tag
                                 \o (IF req.pitch_shift # 0 THEN "+pitch_shift" ELSE "")

\* An octave up was asked for and the track of a vocal with a pitch of 440 Hz
\* now reads 880 Hz.
C13_Witness ==
    /\ pc = "conv_formant_shift"
    /\ req.pitch_shift = 12
    /\ Extracted = <<440>>
    /\ locals.pitch_values = <<880>>

----------------------------------------------------------------------------
(* C14 to C17 *)

\* C14: apply_formant_shift with ratio 1.0 returns every magnitude of the
\* spectrum as it was (each bin is multiplied by 1).
C14_AsStated ==
    (pc = "shifted" /\ result.kind = "return" /\ req.formant_shift = 1000) =>
       result.value = req.magnitude

\* C15: for a signal of at most 100 samples, or one whose order
\* min(12, length div 100) is not positive, estimate_formants returns
\* exactly 700, 1220, 2600 and does not attempt the linear prediction.
C15_ShortSignalGivesDefault ==
    (pc = "done" /\ (req.length <= 100 \/ req.length \div 100 <= 0)) =>
       /\ result.kind = "return"
       /\ result.value.formants = <<700, 1220, 2600>>
       /\ ~result.value.attempted

\* A signal of exactly 100 samples (order 1, but not more than 100 samples)
\* whose analysis would have given a formant at 3000 Hz.
C15_Witness ==
    /\ pc = "done"
    /\ req.length = 100
    /\ req.lpc = LpcYields(<<3000>>)
    /\ result.value.formants = <<700, 1220, 2600>>

\* C16: every set estimate_formants returns is sorted ascending and has all
\* its frequencies strictly between 50 Hz and the Nyquist frequency sr/2.
C16_AsStated ==
    (pc = "done" /\ result.kind = "return") =>
       LET formants == result.value.formants
       IN  /\ \A i \in 1..(Len(formants) - 1) : formants[i] <= formants[i + 1]
           /\ \A i \in 1..Len(formants) :
                 formants[i] > 50 /\ 2 * formants[i] < req.sr

\* C17: no call of estimate_formants or apply_formant_shift ends with an
\* exception; when the linear prediction or the root finding raised, the
\* exception was caught and 700, 1220, 2600 was returned.
C17_EstimatorNeverRaises ==
    /\ pc \in {"done", "shifted"} => result.kind = "return"
    /\ (pc = "done" /\ req.length > 100 /\ req.lpc.exc # NoError) =>
          /\ result.value.formants = <<700, 1220, 2600>>
          /\ result.value.caught = req.lpc.exc

\* The root finding raised on a signal long enough to be analysed, and the
\* call returned the default set.
C17_Witness ==
    /\ pc = "done"
    /\ req.length = 1300
    /\ req.lpc = LpcRaises("LinAlgError")
    /\ result = Return(Estimate(<<700, 1220, 2600>>, TRUE, "LinAlgError"))

----------------------------------------------------------------------------
(* C19 *)

\* Full scale: the sample value that stands for 1.0.
InRange(x) == -200 <= x /\ x <= 200

\* C19: no sample of a waveform written to an output file lies outside
\* [-1.0, 1.0].
C19_AsStated ==
    \A p \in OutputPaths :
       read(fs, p).kind = "audio" =>
          \A c \in 1..Len(read(fs, p).chans) :
             \A n \in 1..Len(read(fs, p).chans[c]) :
                InRange(read(fs, p).chans[c][n])

----------------------------------------------------------------------------
(* C20 *)

\* C20: when the second of two calls with the same arguments has returned,
\* the output file holds what the first call wrote to it.
C20_AsStated ==
    (SecondCall \in Events /\ result = Return(output_path)) =>
       read(fs, output_path) = read(fs0, output_path)

----------------------------------------------------------------------------
(* Concurrent requests *)

\* The steps of the concurrent requests that modified a file.
IsFileWrite(e) == e.ev \in {"open", "write"}

\* Request p has read its preprocessed file for the embedding.
EmbedRead(p) ==
    \E i \in DOMAIN trace :
       trace[i].ev = "read" /\ trace[i].st = "embed" /\ trace[i].arg = p

\* C21: for every interleaving of two requests on the same target voice, each
\* request that reaches the embedding step loads a completely written
\* preprocessed file made from the input it loaded itself, and no file
\* written by one request is read or written by the other request.
C21_AsStated ==
    /\ \A p \in Procs :
          (EmbedRead(p) /\ pc[p] = "done") =>
             /\ result[p] = NoResult
             /\ locals[p].embeddings =
                   "embeddings of " \o locals[p].vocal_data \o "+preprocessed"
    /\ \A i, j \in DOMAIN trace :
          (IsFileWrite(trace[i]) /\ trace[j].path = trace[i].path)
             => trace[j].arg = trace[i].arg

----------------------------------------------------------------------------
(* Noise removal *)

\* The number of samples the noise profile may be taken from: the first half
\* second, or the first quarter of a signal shorter than that.
NoisePrefix(length, sr) ==
    IF noise_length(sr) < length THEN noise_length(sr) ELSE length \div 4

\* The frames that start within the first n samples of the signal.
FramesWithin(n) == {t \in 1 .. n_frames(MaxSamples) : (t - 1) * HopLength < n}

\* C22: noise removal is applied to every signal, short ones included, and
\* its noise profile is taken only from frames within the first 0.5 s of the
\* signal, or within its first quarter when the signal is shorter than 0.5 s.
C22_AsStated ==
    pc = "denoised" =>
       /\ result.value.applied
       /\ result.value.noise_frame
             \subseteq FramesWithin(NoisePrefix(req.length, req.sr))

----------------------------------------------------------------------------
(* File validation and the separation stub *)

\* verify_audio_file has returned for a string path.
VerifiedPath == pc = "verified" /\ req.arg.t = "str"

\* The file the verified path names (Absent when there is none).
Verified == read(fs, req.arg.s)

\* A readable audio file of at least 1024 bytes and 0.1 s.
IsSoundAudio(f, p) ==
    /\ exists(f, p)
    /\ f[p].readers # {}
    /\ f[p].size >= 1024
    /\ f[p].duration >= 100

\* An existing file that no decoder reads as audio.
IsUnreadable(f, p) == exists(f, p) /\ f[p].readers = {}

\* An existing file of fewer than 1024 bytes.
IsTiny(f, p) == exists(f, p) /\ f[p].size < 1024

\* C23 as stated: for a path, verify_audio_file returns True for a readable
\* audio file of at least 1024 bytes and 0.1 s, and False for a missing
\* path, for a file under 1024 bytes and for a file no decoder can read.
C23_AsStated ==
    VerifiedPath =>
       /\ IsSoundAudio(fs, req.arg.s) => result = Return(TRUE)
       /\ ~exists(fs, req.arg.s) => result = Return(FALSE)
       /\ IsTiny(fs, req.arg.s) => result = Return(FALSE)
       /\ IsUnreadable(fs, req.arg.s) => result = Return(FALSE)

\* C23 (amended): for a path, verify_audio_file returns True for a readable
\* audio file of at least 1024 bytes and 0.1 s, False for a missing path and
\* for a file under 1024 bytes; with soundfile and librosa both imported it
\* returns False for a file neither can read, and with either of them
\* missing it returns True for every existing file of at least 1024 bytes.
C23_VerifyPath ==
    VerifiedPath =>
       /\ IsSoundAudio(fs, req.arg.s) => result = Return(TRUE)
       /\ ~exists(fs, req.arg.s) => result = Return(FALSE)
       /\ IsTiny(fs, req.arg.s) => result = Return(FALSE)
       /\ (IsUnreadable(fs, req.arg.s) /\ lib.soundfile /\ lib.librosa
             /\ ~IsTiny(fs, req.arg.s))
          => result = Return(FALSE)
       /\ (exists(fs, req.arg.s) /\ ~IsTiny(fs, req.arg.s)
             /\ ~(lib.soundfile /\ lib.librosa))
          => result = Return(TRUE)

\* A file of 1024 bytes or more that holds no audio was verified without
\* soundfile, and was accepted.
C23_Witness ==
    /\ VerifiedPath
    /\ IsUnreadable(fs, req.arg.s) /\ ~IsTiny(fs, req.arg.s)
    /\ ~lib.soundfile
    /\ result = Return(TRUE)

\* separate_audio has ended.
StubDone == pc = "stub_done"

\* The names a file in the directory of the input may have.
InInputDirectory(p) ==
    \E st \in Stems, suffix \in {"_direct_vocal.wav", "_direct_instrumental.wav"} :
       p = join(dirname(req.audio_path), st \o suffix)

\* The stem at path p is a copy of the input: another file of the input's
\* directory, with the input's content, that verify_audio_file accepts.
IsCopyOfInput(p) ==
    /\ p # req.audio_path
    /\ InInputDirectory(p)
    /\ exists(fs, p)
    /\ fs[p] = fs0[req.audio_path]
    /\ verify_audio_file(fs, lib, Str(p)) = Return(TRUE)

\* The call returned two copies of the input and left the input alone.
StubSucceeded ==
    /\ result.kind = "return"
    /\ IsCopyOfInput(result.value.vocal)
    /\ IsCopyOfInput(result.value.instrumental)
    /\ fs[req.audio_path] = fs0[req.audio_path]

\* C24 as stated: in either mode separate_audio returns two verified copies
\* of a valid input in the input's directory and leaves the input unchanged;
\* a missing input raises FileNotFoundError, an invalid input (too small, or
\* not readable as audio) raises RuntimeError and creates no file.
C24_AsStated ==
    StubDone =>
       /\ IsSoundAudio(fs0, req.audio_path) => StubSucceeded
       /\ ~exists(fs0, req.audio_path) => result = Raise("FileNotFoundError")
       /\ (IsTiny(fs0, req.audio_path) \/ IsUnreadable(fs0, req.audio_path))
          => (result = Raise("RuntimeError") /\ fs = fs0)

\* C24 (amended): in either mode separate_audio returns two verified copies
\* of a valid input in the input's directory and leaves the input unchanged;
\* a missing input raises FileNotFoundError; an input that verify_audio_file
\* rejects raises RuntimeError and creates no file; an input of at least
\* 1024 bytes that is not audio is rejected only when soundfile and librosa
\* are both imported, and is copied like a valid one otherwise.
C24_StubCopies ==
    StubDone =>
       /\ IsSoundAudio(fs0, req.audio_path) => StubSucceeded
       /\ ~exists(fs0, req.audio_path)
          => (result = Raise("FileNotFoundError") /\ fs = fs0)
       /\ (exists(fs0, req.audio_path)
             /\ verify_audio_file(fs0, lib, Str(req.audio_path)) = Return(FALSE))
          => (result = Raise("RuntimeError") /\ fs = fs0)
       /\ IsTiny(fs0, req.audio_path) => result = Raise("RuntimeError")
       /\ (IsUnreadable(fs0, req.audio_path) /\ ~IsTiny(fs0, req.audio_path))
          => IF lib.soundfile /\ lib.librosa
             THEN result = Raise("RuntimeError") /\ fs = fs0
             ELSE StubSucceeded

\* A valid recording was separated in mode "pro": both copies exist.
C24_Witness ==
    /\ StubDone
    /\ req.mode = "pro"
    /\ IsSoundAudio(fs0, req.audio_path)
    /\ result.kind = "return"
    /\ exists(fs, result.value.vocal)
    /\ exists(fs, result.value.instrumental)

\* C30: verify_audio_file is total: for a path, a 2-tuple, None or a tuple
\* of another length it returns a boolean and never raises, and it returns
\* False for whatever it cannot validate (an argument that is neither a
\* path nor a well-formed (sample_rate, audio_data) pair).
C30_AsStated ==
    pc = "verified" =>
       /\ result.kind = "return"
       /\ result.value \in BOOLEAN
       /\ (req.arg.t \notin {"str", "tuple"}
             \/ (req.arg.t = "tuple" /\ Len(req.arg.items) # 2))
          => result = Return(FALSE)

----------------------------------------------------------------------------
(* The formant filter *)

\* The band of formant i (counted from 1) of n, for ratio r in thousandths:
\* 0.7 to 1.3 times the shifted centre for the first and the last formant,
\* from the previous to the next shifted centre for one in between.
InBand(freq, f, r, i) ==
    IF i = 1 \/ i = Len(f)
    THEN 7 * f[i] * r <= freq * 10000 /\ freq * 10000 <= 13 * f[i] * r
    ELSE f[i - 1] * r <= freq * 1000 /\ freq * 1000 <= f[i + 1] * r

\* The number of bands the bin of that frequency lies in.
BandsOver(freq, f, r) == Cardinality({i \in 1..Len(f) : InBand(freq, f, r, i)})

\* 1 + (r - 1) * 0.5 above 1.0, 0.8 + (r - 1) * 0.4 up to 1.0, in thousandths.
StatedGain(r) ==
    IF r > 1000 THEN 1000 + ((r - 1000) * 5) \div 10
    ELSE 800 + ((r - 1000) * 4) \div 10

\* m multiplied k times by the gain g.
RECURSIVE Scaled(_, _, _)
Scaled(m, g, k) == IF k = 0 THEN m ELSE Scaled((m * g) \div 1000, g, k - 1)

\* C25: apply_formant_shift_filter multiplies each bin once for every band
\* it lies in (first and last formant: 0.7 to 1.3 times the shifted centre,
\* interior formant: previous to next shifted centre) by 1+(r-1)*0.5 above
\* ratio 1.0 and by 0.8+(r-1)*0.4 otherwise; bins in no band, the caller's
\* magnitude array and the phase stay as they were.
C25_BandsScaled ==
    pc = "filtered" =>
       /\ \A b \in DOMAIN req.magnitude :
             result.value.magnitude[b] =
                Scaled(req.magnitude[b], StatedGain(req.formant_shift),
                       BandsOver(fft_frequencies(req.sr)[b], req.formants,
                                 req.formant_shift))
       /\ locals.magnitude_values = req.magnitude
       /\ result.value.phase = req.phase

\* Three formants were filtered: one bin lay in two bands and was scaled
\* twice, one lay only in the interior band, one lay in no band.
C25_Witness ==
    /\ pc = "filtered"
    /\ Len(req.formants) = 3
    /\ req.formant_shift = 1500
    /\ \E b, c, d \in DOMAIN req.magnitude :
          /\ BandsOver(fft_frequencies(req.sr)[b], req.formants, 1500) = 2
          /\ result.value.magnitude[b] = Scaled(req.magnitude[b], 1250, 2)
          /\ InBand(fft_frequencies(req.sr)[c], req.formants, 1500, 2)
          /\ BandsOver(fft_frequencies(req.sr)[c], req.formants, 1500) = 1
          /\ result.value.magnitude[c] = Scaled(req.magnitude[c], 1250, 1)
          /\ BandsOver(fft_frequencies(req.sr)[d], req.formants, 1500) = 0
          /\ result.value.magnitude[d] = req.magnitude[d]

----------------------------------------------------------------------------
(* Termination of the separation call *)

\* The states entered so far, in the order they were entered.
IsEnter(e) == e.ev = "enter"

StatesEntered == [i \in DOMAIN SelectSeq(trace, IsEnter) |-> SelectSeq(trace, IsEnter)[i].st]

\* The state that returned, if one did.
IsReturn(e) == e.ev = "return"

StatesReturned == [i \in DOMAIN SelectSeq(trace, IsReturn) |-> SelectSeq(trace, IsReturn)[i].st]

\* A, then B, then C, each at most once, none skipped.
InFallbackOrder ==
    StatesEntered \in {<<>>, <<"A">>, <<"A", "B">>, <<"A", "B", "C">>}

\* The call has ended in exactly one way: the pair of output paths returned
\* by the last state entered, or an exception.
EndedOnce ==
    \/ /\ pc # "done"
       /\ result = NoResult
    \/ /\ pc = "done"
       /\ result = ReturnedPaths
       /\ StatesEntered # <<>>
       /\ StatesReturned = <<StatesEntered[Len(StatesEntered)]>>
    \/ /\ pc = "done"
       /\ result.kind = "raise"
       /\ StatesReturned = <<>>

\* C26: every call of separate_vocals_instrumental ends; it enters the
\* states only in the order A, B, C, each at most once, and ends either by
\* returning the two output paths from the state that succeeded or by
\* raising an exception.
C26_TerminatesInOrder ==
    /\ [](InFallbackOrder /\ EndedOnce)
    /\ <>(pc = "done")

\* All three states were entered and the last one returned the paths.
C26_Witness ==
    /\ pc = "done"
    /\ StatesEntered = <<"A", "B", "C">>
    /\ result = ReturnedPaths

----------------------------------------------------------------------------
(* The target voice file *)

\* The paths preprocess_target_voice has written.
PreprocessWrites ==
    {trace[i].path : i \in {j \in DOMAIN trace :
                               trace[j].ev = "write" /\ trace[j].st = "preprocess"}}

\* C27: preprocess_target_voice never overwrites the file it reads: for
\* every target path, with or without ".wav" in it, the preprocessed file
\* has another path than the target, lies in an existing directory, and the
\* target file holds afterwards what it held before.
C27_AsStated ==
    \A p \in PreprocessWrites :
       /\ p # req.target_voice
       /\ dirname(p) \in dirs
       /\ read(fs, req.target_voice) = read(fs0, req.target_voice)

----------------------------------------------------------------------------
(* The stems State A picks *)

\* C28: whatever files the external model leaves, State A never picks the
\* same file as the vocal result and as the instrumental result, and so
\* never fails to place the instrumental stem after it has moved the vocal
\* stem.
C28_AsStated ==
    /\ pc = "A_place" =>
          (FirstExisting(fs, output_dir, vocal_patterns) # NoPath
              => FirstExisting(fs, output_dir, vocal_patterns)
                    # FirstExisting(fs, output_dir, instrumental_patterns))
    /\ ~(/\ Wrote("A", vocal_output_path) \in Events
         /\ Raised("A", "FileNotFoundError") \in Events)

----------------------------------------------------------------------------
(* Formant matching *)

\* C29: the ratio apply_formant_matching hands to apply_formant_shift lies
\* between 0.5 and 1.5 for all formants estimate_formants can return for the
\* target and for the converted vocal, so the band gain lies between 0.6
\* and 1.25.
C29_AsStated ==
    (pc = "matched" /\ result.value.formant_shift # 0) =>
       /\ result.value.formant_shift \in 500..1500
       /\ band_gain(result.value.formant_shift) \in 600..1250

====
